---- MODULE Spec2Model ----
(***************************************************************************)
(* State-machine model of CodeMirrorAdapter (src/src/codemirror-adapter.ts) *)
(* the adapter between a CodeMirror editor and an LSP connection.           *)
(*                                                                         *)
(* Text is a sequence of one-character strings; a document is a sequence   *)
(* of lines; a position is [line, ch], both zero-based as in the source.   *)
(***************************************************************************)
EXTENDS Integers, Sequences, FiniteSets, Bags, TLC

VARIABLES
  options,               \* this.options (already filled with defaults)
  completionCharacters,  \* connection.getLanguageCompletionCharacters()
  signatureCharacters,   \* connection.getLanguageSignatureCharacters()
  capabilities,          \* which of definition/typeDefinition/references the connection supports
  snippets,              \* this.snippets
  doc,                   \* the editor's buffer, a sequence of lines
  cursor,                \* editor.getDoc().getCursor('end')
  token,                 \* this.token
  hoverMarker,           \* this.hoverMarker
  hoverCharacter,        \* this.hoverCharacter
  tooltip,               \* this.tooltip: the last created overlay element
  isShowingContextMenu,  \* this.isShowingContextMenu
  orphanTooltips,        \* overlay elements mounted in the wrapper that this.tooltip no longer references
  editorMarks,           \* the editor's text markers (a bag of [className, start, end])
  markedDiagnostics,     \* this.markedDiagnostics
  diagnosticResults,     \* this.diagnosticResults
  gutter,                \* the 'CodeMirror-lsp' gutter: line -> marker title
  highlightMarkers,      \* this.highlightMarkers
  editorOn,              \* events with a listener registered through editor.on
  wrapperOn,             \* events with a listener on editor.getWrapperElement()
  connectionOn,          \* events with a listener registered through connection.on
  documentOn,            \* events with a listener on document
  removed,               \* remove() has been called
  changeTimer,           \* debounced change listener: change events since it last ran (0 = timer idle)
  hoverTimer,            \* debouncedGetHover: the position it will run with (None = timer idle)
  hoverRequested,        \* positions sent with getHoverTooltip, whose responses may arrive
  signatureRequested,    \* getSignatureHelp has been sent, so signature responses may arrive
  hoverCalled,           \* the position of the connection's latest getHoverTooltip call
  completionRequested,   \* getCompletion has been sent, so completion responses may arrive
  hint,                  \* the editor's active completion (show-hint), None when there is none
  overlays,              \* the overlay elements _showTooltip has created with their geometry, oldest first
  frames,                \* the callbacks queued with requestAnimationFrame, oldest first
  features,              \* the features last handed to options.contextMenuProvider
  calls,                 \* the connection calls made by the latest step, in order
  lastOp                 \* the latest step: the handler that ran and what it observed

connVars     == <<completionCharacters, signatureCharacters, capabilities, snippets>>
bufVars      == <<doc, cursor>>
overlayVars  == <<tooltip, isShowingContextMenu, orphanTooltips, overlays, frames>>
hoverVars    == <<hoverMarker, hoverCharacter>>
diagVars     == <<markedDiagnostics, diagnosticResults, gutter>>
listenerVars == <<editorOn, wrapperOn, connectionOn, documentOn, removed>>
timerVars    == <<changeTimer, hoverTimer>>
flightVars   == <<hoverRequested, signatureRequested, hoverCalled, completionRequested>>

vars == <<options, connVars, bufVars, token, hoverVars, overlayVars, editorMarks,
          diagVars, highlightMarkers, listenerVars, timerVars, flightVars, hint,
          features, calls, lastOp>>

----------------------------------------------------------------------------
(* Bounds of the model *)

\* longest line of a one-line document the editor is given
MaxLen == 2
\* most change events the debounced listener coalesces into one run
MaxChanges == 2
\* most diagnostics in one publication
MaxDiags == 2
\* the pointer rests on the characters 0..MaxHoverCh of line 0
MaxHoverCh == 1
\* most entries in the list of a go-to response
MaxLocations == 2
\* longest line a token is extracted from
MaxTokenLine == 3
\* the candidates of a completion response
MaxItems == 2
\* the overlays shown in a run of the positioning track
MaxOverlays == 2
\* the largest target coordinate of an overlay
MaxY == 2
\* the largest rendered height of an overlay
MaxHeight == 2

----------------------------------------------------------------------------
(* Values *)

\* JavaScript's undefined, where a string is expected (line[-1])
Undefined == "undefined"
\* JavaScript's undefined / null, where an object is expected
None == [undefined |-> TRUE]

Pos(l, c) == [line |-> l, ch |-> c]

\* lsProtocol.CompletionTriggerKind
Invoked == 1
TriggerCharacter == 2

\* The characters \W does not match: [A-Za-z0-9_]
WordCharacters ==
  {"a","b","c","d","e","f","g","h","i","j","k","l","m","n","o","p","q","r","s",
   "t","u","v","w","x","y","z","A","B","C","D","E","F","G","H","I","J","K","L",
   "M","N","O","P","Q","R","S","T","U","V","W","X","Y","Z","0","1","2","3","4",
   "5","6","7","8","9","_"}

\* /\w/ written for /\W/
IsNonWordInverted(c) == c \in WordCharacters

\* /\W/.test(c) for a one-character string c
IsNonWord(c) == c \notin WordCharacters

Min(a, b) == IF a < b THEN a ELSE b

----------------------------------------------------------------------------
(* The editor's buffer *)

\* editor.getValue(): the lines joined by "\n"
RECURSIVE JoinLines(_)
JoinLines(ls) ==
  IF Len(ls) = 0 THEN <<>>
  ELSE IF Len(ls) = 1 THEN ls[1]
  ELSE ls[1] \o <<"\n">> \o JoinLines(Tail(ls))

\* code.split('\n')
RECURSIVE SplitLines(_)
SplitLines(code) ==
  IF \A i \in 1..Len(code) : code[i] # "\n" THEN <<code>>
  ELSE LET k == CHOOSE i \in 1..Len(code) :
                  code[i] = "\n" /\ \A j \in 1..(i - 1) : code[j] # "\n"
       IN  <<SubSeq(code, 1, k - 1)>> \o SplitLines(SubSeq(code, k + 1, Len(code)))

\* line[i] with a zero-based index: undefined outside the line
CharAt(line, i) == IF i >= 0 /\ i < Len(line) THEN line[i + 1] ELSE Undefined

\* line.substr(from, length)
Substr(line, from, length) == SubSeq(line, from + 1, Min(Len(line), from + length))

\* editor.getLine(n)
GetLine(n) == doc[n + 1]

----------------------------------------------------------------------------
(* Token extraction *)

\* the backward scan of _getTokenEndingAtPosition: from index i down to 0,
\* stopping at the first non-word character; acc is wordStartChar so far
RECURSIVE WordStart(_, _, _)
WordStart(line, i, acc) ==
  IF i < 0 THEN acc
  ELSE IF IsNonWord(line[i + 1]) THEN acc
  ELSE WordStart(line, i - 1, i)

\* the split-character case left out: every token is found by the backward scan
GetTokenByScanOnly(code, location, splitCharacters) ==
  LET line == SplitLines(code)[location.line + 1]
      wordStartChar == WordStart(line, location.ch - 1, 0)
  IN  [text  |-> Substr(line, wordStartChar, location.ch),
       start |-> Pos(location.line, wordStartChar),
       end   |-> location]

GetTokenEndingAtPosition(code, location, splitCharacters) ==
  LET line == SplitLines(code)[location.line + 1]
      typedCharacter == CharAt(line, location.ch - 1)
  IN  IF typedCharacter \in splitCharacters
      THEN [text  |-> <<typedCharacter>>,
            start |-> Pos(location.line, location.ch - 1),
            end   |-> location]
      ELSE LET wordStartChar == WordStart(line, location.ch - 1, 0)
           IN  [text  |-> Substr(line, wordStartChar, location.ch),
                start |-> Pos(location.line, wordStartChar),
                end   |-> location]

----------------------------------------------------------------------------
(* The overlay (tooltip or context menu) *)

\* editor.defaultTextHeight()
DefaultTextHeight == 1

\* what the editor and the browser report to a handler that shows an overlay:
\* y, the coords.y it passes to _showTooltip, and height, the offsetHeight of
\* the element once it is rendered
Layout(y, height) == [y |-> y, height |-> height]

\* offsetHeight of an element: its rendered height, 0 once it is detached
OffsetHeight(el) == IF el.attached THEN el.height ELSE 0

OverlayState ==
  [tooltip |-> tooltip, isShowingContextMenu |-> isShowingContextMenu,
   orphans |-> orphanTooltips, overlays |-> overlays, frames |-> frames]

\* this.tooltip.remove() detaches the element this.tooltip references, the
\* last one created
RemoveTooltip(ov) ==
  IF ov.tooltip # None
  THEN [ov EXCEPT !.isShowingContextMenu = FALSE, !.tooltip.attached = FALSE,
                  !.overlays[Len(ov.overlays)].attached = FALSE]
  ELSE ov

\* the element _showTooltip creates: placed at coords.y less the line height,
\* not yet measured
NewOverlay(layout) ==
  [y |-> layout.y, height |-> layout.height, top |-> layout.y - DefaultTextHeight,
   attached |-> TRUE, ticked |-> FALSE, measured |-> 0]

\* the callback _showTooltip queues: it keeps top and altTop of its call; of is
\* the element the call created
NewFrame(layout, of) ==
  [top |-> layout.y - DefaultTextHeight, altTop |-> layout.y + DefaultTextHeight,
   of |-> of]

\* the tooltip branch of _removeSignatureWidget left out
RemoveSignatureWidgetOnly(ov) == ov

\* this.signatureWidget is never assigned, so only the tooltip branch acts
RemoveSignatureWidget(ov) ==
  IF ov.tooltip # None THEN RemoveTooltip(ov) ELSE ov

\* the previous overlay not removed before the new one is mounted
ShowTooltipOverPrevious(ov, kind, layout) ==
  [tooltip |-> [kind |-> kind, attached |-> TRUE],
   isShowingContextMenu |-> TRUE,
   orphans |-> ov.orphans +
               (IF ov.tooltip # None /\ ov.tooltip.attached THEN 1 ELSE 0),
   overlays |-> Append(ov.overlays, NewOverlay(layout)),
   frames |-> Append(ov.frames, NewFrame(layout, Len(ov.overlays) + 1))]

\* _showTooltip(el, coords): kind names the content el
ShowTooltip(ov, kind, layout) ==
  LET o == IF ov.isShowingContextMenu THEN RemoveTooltip(ov) ELSE ov
      left == IF o.tooltip # None /\ o.tooltip.attached THEN 1 ELSE 0
  IN  [tooltip |-> [kind |-> kind, attached |-> TRUE],
       isShowingContextMenu |-> TRUE,
       orphans |-> o.orphans + left,
       overlays |-> Append(o.overlays, NewOverlay(layout)),
       frames |-> Append(o.frames, NewFrame(layout, Len(o.overlays) + 1))]

\* the overlay elements mounted in the editor wrapper
MountedOverlays(ov) ==
  ov.orphans + (IF ov.tooltip # None /\ ov.tooltip.attached THEN 1 ELSE 0)

\* the kind of the overlay this.tooltip shows, "none" when it is not mounted
ShownKind(ov) ==
  IF ov.tooltip # None /\ ov.tooltip.attached THEN ov.tooltip.kind ELSE "none"

\* the overlay state a handler leaves; a handler that would create more than
\* MaxOverlays elements is not taken
SetOverlay(ov) ==
  /\ Len(ov.overlays) <= MaxOverlays
  /\ tooltip' = ov.tooltip
  /\ isShowingContextMenu' = ov.isShowingContextMenu
  /\ orphanTooltips' = ov.orphans
  /\ overlays' = ov.overlays
  /\ frames' = ov.frames

----------------------------------------------------------------------------
(* Text markers of the editor *)

HoverClass      == "CodeMirror-lsp-hover"
DiagnosticClass == "diagnosticMarkClassName"
HighlightClass  == "CodeMirror-lsp-highlight"

\* editor.getDoc().markText(start, end, {className})
Mark(className, start, end) == [className |-> className, start |-> start, end |-> end]

\* the markers of a list, as a bag
RECURSIVE BagOfSeq(_)
BagOfSeq(s) ==
  IF Len(s) = 0 THEN EmptyBag ELSE SetToBag({Head(s)}) (+) BagOfSeq(Tail(s))

\* the editor's markers of one class, as a bag
MarksOfClass(marks, className) ==
  LET keep == {m \in BagToSet(marks) : m.className = className}
  IN  [m \in keep |-> marks[m]]

\* a protocol position {line, character} as an editor position {line, ch}
ToPos(p) == [line |-> p.line, ch |-> p.character]

----------------------------------------------------------------------------
(* Completion: filtering the candidates and the hint list *)

UpperCase ==
  <<"A","B","C","D","E","F","G","H","I","J","K","L","M","N","O","P","Q","R","S",
    "T","U","V","W","X","Y","Z">>
LowerCase ==
  <<"a","b","c","d","e","f","g","h","i","j","k","l","m","n","o","p","q","r","s",
    "t","u","v","w","x","y","z">>

\* String.prototype.toLowerCase, character by character
ToLowerCase(str) ==
  [i \in 1..Len(str) |->
     IF \E k \in 1..Len(UpperCase) : UpperCase[k] = str[i]
     THEN LowerCase[CHOOSE k \in 1..Len(UpperCase) : UpperCase[k] = str[i]]
     ELSE str[i]]

\* String.prototype.startsWith
StartsWith(str, prefix) ==
  Len(prefix) <= Len(str) /\ SubSeq(str, 1, Len(prefix)) = prefix

\* triggerWord.split(/\W+/)[0]: the word characters before the first other one
FirstWord(triggerWord) ==
  LET stops == {i \in 1..Len(triggerWord) : IsNonWord(triggerWord[i])}
      stop == IF stops = {} THEN Len(triggerWord) + 1
              ELSE CHOOSE i \in stops : \A j \in stops : i <= j
  IN  SubSeq(triggerWord, 1, stop - 1)

\* a completion item; an absent filterText or insertText is the empty string,
\* falsy like undefined
CompletionItem(label, filterText, insertText) ==
  [label |-> label, filterText |-> filterText, insertText |-> insertText]

\* the predicate of _getFilteredCompletions' filter
MatchesWord(item, word, canMatchWholeWord) ==
  LET label == ToLowerCase(item.label)
  IN  IF item.filterText # <<>> /\ StartsWith(ToLowerCase(item.filterText), word)
      THEN TRUE
      ELSE IF ~canMatchWholeWord /\ label = word THEN FALSE
      ELSE StartsWith(label, word)

\* a comparator that tells no two items apart: the sort keeps candidate order
CompareAsEqual(a, b, word) == 0

\* the comparator of _getFilteredCompletions' sort
CompareByLabel(a, b, word) ==
  (IF StartsWith(ToLowerCase(a.label), word) THEN -1 ELSE 1) +
  (IF StartsWith(ToLowerCase(b.label), word) THEN 1 ELSE -1)

\* Array.prototype.sort with that comparator: a stable sort, by insertion
RECURSIVE SortedByLabel(_, _)
SortedByLabel(items, word) ==
  IF Len(items) <= 1 THEN items
  ELSE LET front == SortedByLabel(SubSeq(items, 1, Len(items) - 1), word)
           x == items[Len(items)]
           before == {j \in 1..Len(front) : CompareByLabel(front[j], x, word) <= 0}
           at == IF before = {} THEN 0 ELSE CHOOSE j \in before : \A k \in before : k <= j
       IN  SubSeq(front, 1, at) \o <<x>> \o SubSeq(front, at + 1, Len(front))

\* a list of completion items, as a response or the snippets option carries it;
\* an absent list is None
ItemList(items) == [items |-> items]

GetFilteredCompletions(triggerWord, items, canMatchWholeWord) ==
  IF items = None THEN <<>>
  ELSE LET word == ToLowerCase(FirstWord(triggerWord))
       IN  SortedByLabel(SelectSeq(items.items, LAMBDA item :
                                     MatchesWord(item, word, canMatchWholeWord)),
                         word)

\* _getHintList: the entries of the hint list; the hint callback each entry
\* carries acts in PickHint
GetHintList(hints) ==
  [i \in 1..Len(hints) |->
     [text |-> IF hints[i].insertText # <<>> THEN hints[i].insertText
               ELSE hints[i].label,
      displayText |-> hints[i].label]]

\* /^\W$/.test(text)
IsSingleNonWord(text) == Len(text) = 1 /\ IsNonWord(text[1])

\* the hint function handleCompletion passes to showHint, evaluated: start and
\* the two lists were captured at the response, this.token is read now
HintResult(h, tok) ==
  [from |-> h.start,
   to   |-> tok.end,
   list |-> GetHintList(h.bestSnippets) \o GetHintList(h.bestCompletions)]

\* the closeCharacters of show-hint: /[\s()\[\]{};:>,]/
CloseCharacters == {" ", "\n", "(", ")", "[", "]", "{", "}", ";", ":", ">", ","}

\* show-hint on a cursor activity: the active completion is closed when the
\* cursor has left the line, is no longer at the same distance from the end of
\* the line, is before the start of the range or after a close character;
\* otherwise the hint function is evaluated again
HintAfterCursorActivity(h, d, c, tok) ==
  IF h = None THEN None
  ELSE LET line == d[c.line + 1]
       IN  IF \/ c.line # h.startPos.line
              \/ Len(line) - c.ch # h.tail
              \/ c.ch < h.data.from.ch
              \/ c.ch = 0
              \/ CharAt(line, c.ch - 1) \in CloseCharacters
           THEN None
           ELSE [h EXCEPT !.data = HintResult(h, tok), !.updates = 1]

\* a hint list is showing: the active completion has a widget
HintShown == hint # None /\ Len(hint.data.list) > 0

\* text.replace(/\$0/g, '')
RECURSIVE WithoutPlaceholder(_)
WithoutPlaceholder(text) ==
  IF Len(text) < 2 THEN text
  ELSE IF text[1] = "$" /\ text[2] = "0"
       THEN WithoutPlaceholder(SubSeq(text, 3, Len(text)))
       ELSE <<text[1]>> \o WithoutPlaceholder(Tail(text))

\* where the hint callback of an entry puts the cursor: on the last line of the
\* text that holds $0, counted from from.line, at the column of its last $0 in
\* that line; None when the text holds no $0
PlaceholderCursor(text, from) ==
  LET lines == SplitLines(text)
      At(str) == {i \in 1..(Len(str) - 1) : str[i] = "$" /\ str[i + 1] = "0"}
      LastIndexOf(str) == CHOOSE i \in At(str) : \A j \in At(str) : j <= i
      holding == {k \in 1..Len(lines) : At(lines[k]) # {}}
      last == CHOOSE k \in holding : \A j \in holding : j <= k
  IN  IF At(text) = {} THEN None
      ELSE Pos(from.line + last - 1, LastIndexOf(lines[last]) - 1)

\* a position clipped to the document, as the editor clips the positions it is
\* given
ClipPos(d, p) ==
  IF p.line < 0 THEN Pos(0, 0)
  ELSE IF p.line >= Len(d) THEN Pos(Len(d) - 1, Len(d[Len(d)]))
  ELSE Pos(p.line, IF p.ch < 0 THEN 0 ELSE Min(p.ch, Len(d[p.line + 1])))

\* cm.replaceRange(code, from, to): the document with the range replaced, and
\* the cursor c where the change leaves it
ReplaceRange(d, c, code, from, to) ==
  LET Before(a, b) == a.line < b.line \/ (a.line = b.line /\ a.ch < b.ch)
      cf == ClipPos(d, from)
      ct == ClipPos(d, to)
      f == IF Before(ct, cf) THEN ct ELSE cf
      t == IF Before(ct, cf) THEN cf ELSE ct
      lines == SplitLines(code)
      n == Len(lines)
      prefix == SubSeq(d[f.line + 1], 1, f.ch)
      suffix == SubSeq(d[t.line + 1], t.ch + 1, Len(d[t.line + 1]))
      middle == IF n = 1 THEN <<prefix \o lines[1] \o suffix>>
                ELSE <<prefix \o lines[1]>> \o SubSeq(lines, 2, n - 1) \o
                     <<lines[n] \o suffix>>
      end == IF n = 1 THEN Pos(f.line, f.ch + Len(lines[1]))
             ELSE Pos(f.line + n - 1, Len(lines[n]))
  IN  [doc |-> SubSeq(d, 1, f.line) \o middle \o SubSeq(d, t.line + 2, Len(d)),
       cursor |-> IF Before(c, f) THEN c
                  ELSE IF ~Before(t, c) THEN end
                  ELSE Pos(c.line + n - (t.line - f.line) - 1,
                           IF c.line = t.line THEN c.ch + end.ch - t.ch ELSE c.ch)]

----------------------------------------------------------------------------
(* The change handler *)

\* the signature triggers tested before the completion triggers
ChangeBranchSignatureFirst(typedCharacter, completionChars, signatureChars) ==
  IF typedCharacter = Undefined THEN "cleared"
  ELSE IF typedCharacter \in signatureChars THEN "signature"
  ELSE IF typedCharacter \in completionChars THEN "completion"
  ELSE IF ~IsNonWord(typedCharacter) THEN "word"
  ELSE "other"

\* which arm of handleChange's if-chain a typed character takes
ChangeBranch(typedCharacter, completionChars, signatureChars) ==
  IF typedCharacter = Undefined THEN "cleared"
  ELSE IF typedCharacter \in completionChars THEN "completion"
  ELSE IF typedCharacter \in signatureChars THEN "signature"
  ELSE IF ~IsNonWord(typedCharacter) THEN "word"
  ELSE "other"

\* this.token after handleChange
ChangeToken(branch, code, location, completionChars, signatureChars, old) ==
  CASE branch = "completion" ->
         GetTokenEndingAtPosition(code, location, completionChars)
    [] branch = "signature" ->
         GetTokenEndingAtPosition(code, location, signatureChars)
    [] branch = "word" ->
         GetTokenEndingAtPosition(code, location, completionChars \cup signatureChars)
    [] OTHER -> old

\* the connection calls handleChange makes, in order
ChangeCalls(branch, location, typedCharacter, old, new) ==
  <<[fn |-> "sendChange"]>> \o
  (CASE branch = "completion" ->
          <<[fn |-> "getCompletion", position |-> location, token |-> new,
             triggerCharacter |-> typedCharacter, triggerKind |-> TriggerCharacter]>>
     [] branch = "signature" ->
          <<[fn |-> "getSignatureHelp", position |-> location]>>
     [] branch = "word" ->
          <<[fn |-> "getCompletion", position |-> location, token |-> old,
             triggerCharacter |-> "", triggerKind |-> Invoked]>>
     [] OTHER -> <<>>)

\* the overlay after handleChange
ChangeOverlay(branch, ov) ==
  IF branch \in {"cleared", "other"} THEN RemoveSignatureWidget(ov) ELSE ov

\* the character before the cursor, as handleChange reads it
TypedCharacter == CharAt(GetLine(cursor.line), cursor.ch - 1)

\* the editor's buffer changes; the debounced change listener, when still
\* registered, (re)starts its timer
ChangeEvent(d, c) ==
  /\ changeTimer < MaxChanges
  /\ doc' = d
  /\ cursor' = c
  /\ changeTimer' = IF "change" \in editorOn THEN changeTimer + 1 ELSE changeTimer
  /\ hint' = HintAfterCursorActivity(hint, d, c, token)
  /\ calls' = <<>>
  /\ lastOp' = [op |-> "change"]
  /\ UNCHANGED <<options, connVars, features, token, hoverVars, overlayVars, editorMarks,
                 diagVars, highlightMarkers, listenerVars, hoverTimer, flightVars>>

\* entry i of the showing hint list is picked: show-hint calls the entry's hint
\* callback with the result it last evaluated, and closes; the callback replaces
\* the range of the result with the text less its $0 and, when the text holds
\* $0, sets the cursor; the listeners of the buffer change run as for typing
PickHint(i) ==
  /\ HintShown
  /\ i \in 1..Len(hint.data.list)
  /\ changeTimer < MaxChanges
  /\ LET completion == hint.data.list[i]
         from == hint.data.from
         replaced == ReplaceRange(doc, cursor, WithoutPlaceholder(completion.text),
                                  from, hint.data.to)
         placed == PlaceholderCursor(completion.text, from)
     IN  /\ doc' = replaced.doc
         /\ cursor' = IF placed = None THEN replaced.cursor
                       ELSE ClipPos(replaced.doc, placed)
         /\ lastOp' = [op |-> "pick", completion |-> completion]
  /\ changeTimer' = IF "change" \in editorOn THEN changeTimer + 1 ELSE changeTimer
  /\ hint' = None
  /\ calls' = <<>>
  /\ UNCHANGED <<options, connVars, features, token, hoverVars, overlayVars, editorMarks,
                 diagVars, highlightMarkers, listenerVars, hoverTimer, flightVars>>

\* the cursor moves without a change of the buffer; the adapter's
\* cursorActivity listener is commented out
CursorActivity(c) ==
  /\ c # cursor
  /\ cursor' = c
  /\ hint' = HintAfterCursorActivity(hint, doc, c, token)
  /\ calls' = <<>>
  /\ lastOp' = [op |-> "cursorActivity"]
  /\ UNCHANGED <<options, connVars, features, doc, token, hoverVars, overlayVars, editorMarks,
                 diagVars, highlightMarkers, listenerVars, timerVars, flightVars>>

\* the debounce timer of the change listener fires: handleChange runs once
HandleChange ==
  /\ changeTimer > 0
  /\ LET location == cursor
         code == JoinLines(doc)
         typedCharacter == TypedCharacter
         branch == ChangeBranch(typedCharacter, completionCharacters, signatureCharacters)
         new == ChangeToken(branch, code, location, completionCharacters,
                            signatureCharacters, token)
     IN  /\ token' = new
         /\ calls' = ChangeCalls(branch, location, typedCharacter, token, new)
         /\ SetOverlay(ChangeOverlay(branch, OverlayState))
         /\ signatureRequested' = (signatureRequested \/ branch = "signature")
         /\ completionRequested' =
              (completionRequested \/ branch \in {"completion", "word"})
         /\ lastOp' = [op |-> "handleChange", branch |-> branch,
                       changes |-> changeTimer, before |-> ShownKind(OverlayState)]
  /\ changeTimer' = 0
  /\ UNCHANGED <<options, connVars, features, hint, bufVars, hoverVars, editorMarks, diagVars,
                 highlightMarkers, listenerVars, hoverTimer, hoverRequested,
                 hoverCalled>>

----------------------------------------------------------------------------
(* Diagnostics *)

\* the lines of the gutter the model tracks
GutterLines == {0, 1}

EmptyGutter == [l \in GutterLines |-> Undefined]

\* what handleDiagnostic and _clearDiagnostics work on
DiagState ==
  [marked |-> markedDiagnostics, results |-> diagnosticResults, gutter |-> gutter,
   marks |-> editorMarks]

\* editor.clearGutter left out
ClearDiagnosticsKeepingGutter(st) ==
  [marked  |-> <<>>,
   results |-> <<>>,
   gutter  |-> st.gutter,
   marks   |-> st.marks (-) BagOfSeq(st.marked)]

ClearDiagnostics(st) ==
  [marked  |-> <<>>,
   results |-> <<>>,
   gutter  |-> EmptyGutter,
   marks   |-> st.marks (-) BagOfSeq(st.marked)]

\* the search for an entry of the same range left out: every diagnostic
\* appends its own tracker entry
AddDiagnosticUnmerged(st, diagnostic, opts) ==
  LET start == ToPos(diagnostic.range.start)
      end == ToPos(diagnostic.range.end)
      mark == Mark(DiagnosticClass, start, end)
  IN  [marked  |-> Append(st.marked, mark),
       marks   |-> st.marks (+) SetToBag({mark}),
       results |-> Append(st.results,
                          [text |-> <<diagnostic.message>>, start |-> start, end |-> end]),
       gutter  |-> IF opts.enableGutterMarks
                   THEN [st.gutter EXCEPT ![start.line] = diagnostic.message]
                   ELSE st.gutter]

\* the body of handleDiagnostic's forEach, for one diagnostic
AddDiagnostic(st, diagnostic, opts) ==
  LET start == ToPos(diagnostic.range.start)
      end == ToPos(diagnostic.range.end)
      mark == Mark(DiagnosticClass, start, end)
      dups == {i \in 1..Len(st.results) :
                 st.results[i].start = start /\ st.results[i].end = end}
      duplicateIndex == IF dups = {} THEN -1
                        ELSE CHOOSE i \in dups : \A j \in dups : i <= j
  IN  [marked  |-> Append(st.marked, mark),
       marks   |-> st.marks (+) SetToBag({mark}),
       results |-> IF duplicateIndex > -1
                   THEN [st.results EXCEPT
                           ![duplicateIndex].text = Append(@, diagnostic.message)]
                   ELSE Append(st.results,
                               [text |-> <<diagnostic.message>>,
                                start |-> start, end |-> end]),
       gutter  |-> IF opts.enableGutterMarks
                   THEN [st.gutter EXCEPT ![start.line] = diagnostic.message]
                   ELSE st.gutter]

RECURSIVE AddDiagnostics(_, _, _)
AddDiagnostics(st, diagnostics, opts) ==
  IF Len(diagnostics) = 0 THEN st
  ELSE AddDiagnostics(AddDiagnostic(st, Head(diagnostics), opts), Tail(diagnostics), opts)

\* reading response.diagnostics (of a null response) or calling forEach of a
\* missing list throws a TypeError
DiagnosticThrows(response, opts) ==
  opts.enableDiagnostics /\ "diagnostics" \notin DOMAIN response

\* the state handleDiagnostic leaves; when it throws, _clearDiagnostics has run
Diagnosed(st, response, opts) ==
  IF ~opts.enableDiagnostics THEN st
  ELSE IF DiagnosticThrows(response, opts) THEN ClearDiagnostics(st)
  ELSE AddDiagnostics(ClearDiagnostics(st), response.diagnostics, opts)

SetDiag(st) ==
  /\ markedDiagnostics' = st.marked
  /\ diagnosticResults' = st.results
  /\ gutter' = st.gutter
  /\ editorMarks' = st.marks

\* the connection publishes diagnostics
HandleDiagnostic(response) ==
  /\ "diagnostic" \in connectionOn
  /\ SetDiag(Diagnosed(DiagState, response, options))
  /\ calls' = <<>>
  /\ lastOp' = [op |-> "handleDiagnostic", response |-> response,
                gutterMarks |-> options.enableGutterMarks,
                before |-> Len(markedDiagnostics),
                threw |-> DiagnosticThrows(response, options)]
  /\ UNCHANGED <<options, connVars, features, hint, bufVars, token, hoverVars, overlayVars,
                 highlightMarkers, listenerVars, timerVars, flightVars>>

\* the diagnostics state updateOptions leaves, without its call of
\* _clearDiagnostics
OptionsUpdatedKeepingDiagnostics(st, o) == st

\* the diagnostics state updateOptions leaves
OptionsUpdated(st, o) ==
  IF ~o.enableDiagnostics THEN ClearDiagnostics(st) ELSE st

UpdateOptions(o) ==
  /\ options' = o
  /\ SetDiag(OptionsUpdated(DiagState, o))
  /\ calls' = <<>>
  /\ lastOp' = [op |-> "updateOptions", before |-> Len(markedDiagnostics)]
  /\ UNCHANGED <<connVars, features, hint, bufVars, token, hoverVars, overlayVars,
                 highlightMarkers, listenerVars, timerVars, flightVars>>

UpdateSnippets(newSnippets) ==
  /\ snippets' = newSnippets
  /\ calls' = <<>>
  /\ lastOp' = [op |-> "updateSnippets"]
  /\ UNCHANGED <<options, completionCharacters, signatureCharacters, capabilities,
                 features, hint, bufVars, token, hoverVars, overlayVars, editorMarks,
                 diagVars, highlightMarkers, listenerVars, timerVars, flightVars>>

----------------------------------------------------------------------------
(* Hover *)

\* what _removeHover works on
HoverState == [hoverMarker |-> hoverMarker, marks |-> editorMarks]

RemoveHover(hs) ==
  IF hs.hoverMarker # None
  THEN [hoverMarker |-> None, marks |-> hs.marks (-) SetToBag({hs.hoverMarker})]
  ELSE hs

SetHover(hs) ==
  /\ hoverMarker' = hs.hoverMarker
  /\ editorMarks' = hs.marks

\* _isEventOnTooltip: undefined (falsy) while no overlay is showing
IsEventOnTooltip(ev, ov) == ov.isShowingContextMenu /\ ev.onTooltip

\* the pointer moves over the editor wrapper
HandleMouseOver(ev) ==
  /\ "mousemove" \in wrapperOn
  /\ calls' = <<>>
  /\ IF ~ev.onCharacter \/ IsEventOnTooltip(ev, OverlayState)
     THEN /\ lastOp' = [op |-> "handleMouseOver", branch |-> "ignored", event |-> ev]
          /\ UNCHANGED <<hoverVars, overlayVars, editorMarks, hoverTimer>>
     ELSE IF ~ev.insideVisible
     THEN /\ lastOp' = [op |-> "handleMouseOver", branch |-> "outside", event |-> ev]
          /\ SetHover(RemoveHover(HoverState))
          /\ SetOverlay(RemoveTooltip(OverlayState))
          /\ UNCHANGED <<hoverCharacter, hoverTimer>>
     ELSE IF hoverCharacter # ev.position
     THEN /\ lastOp' = [op |-> "handleMouseOver", branch |-> "debounced", event |-> ev]
          /\ hoverCharacter' = ev.position
          /\ hoverTimer' = ev.position
          /\ UNCHANGED <<hoverMarker, overlayVars, editorMarks>>
     ELSE /\ lastOp' = [op |-> "handleMouseOver", branch |-> "duplicate", event |-> ev]
          /\ UNCHANGED <<hoverVars, overlayVars, editorMarks, hoverTimer>>
  /\ UNCHANGED <<options, connVars, features, hint, bufVars, token, diagVars, highlightMarkers,
                 listenerVars, changeTimer, flightVars>>

\* the debounce timer of debouncedGetHover fires
DebouncedGetHover ==
  /\ hoverTimer # None
  /\ hoverTimer' = None
  /\ IF ~options.enableDiagnostics /\ ~options.enableHoverInfo
     THEN /\ calls' = <<>>
          /\ UNCHANGED <<hoverRequested, hoverCalled>>
     ELSE /\ calls' = <<[fn |-> "getHoverTooltip", position |-> hoverTimer]>>
          /\ hoverRequested' = hoverRequested \cup {hoverTimer}
          /\ hoverCalled' = hoverTimer
  /\ lastOp' = [op |-> "debouncedGetHover", previous |-> hoverCalled]
  /\ UNCHANGED <<options, connVars, features, hint, bufVars, token, hoverVars, overlayVars,
                 editorMarks, diagVars, highlightMarkers, listenerVars, changeTimer,
                 signatureRequested, completionRequested>>

\* handleHover's scan of the tracker: does an entry cover the position
HasDiagnosticAt(results, position) ==
  \E i \in 1..Len(results) :
    /\ position.line = results[i].start.line \/ position.line = results[i].end.line
    /\ position.ch >= results[i].start.ch
    /\ position.ch <= results[i].end.ch

ShowTooltipWithData(hasData, ov, layout) ==
  IF hasData THEN ShowTooltip(ov, "diagnostic", layout) ELSE ov

\* handleHover returns before reading the range
HoverIsEmpty(response, opts) ==
  \/ ~opts.enableHoverInfo
  \/ response = None
  \/ response.contents \in {"missing", "emptyArray"}

\* the hover response for a requested position arrives; layout is what the
\* editor reports for the overlay the handler shows, if it shows one
HandleHover(response, position, layout) ==
  /\ "hover" \in connectionOn
  /\ position \in hoverRequested
  /\ calls' = <<>>
  /\ LET hs == RemoveHover(HoverState)
         ov == RemoveTooltip(OverlayState)
         hasData == HasDiagnosticAt(diagnosticResults, position)
     IN  IF HoverIsEmpty(response, options)
         THEN /\ SetHover(hs)
              /\ SetOverlay(ShowTooltipWithData(hasData, ov, layout))
              /\ lastOp' = [op |-> "handleHover", branch |-> "empty"]
         ELSE LET start == IF response.range # None
                           THEN ToPos(response.range.start) ELSE hoverCharacter
                  end == IF response.range # None
                         THEN ToPos(response.range.end) ELSE hoverCharacter
                  marked == IF response.range # None
                            THEN [hoverMarker |-> Mark(HoverClass, start, end),
                                  marks |-> hs.marks (+)
                                            SetToBag({Mark(HoverClass, start, end)})]
                            ELSE hs
                  outside == \/ position.ch < start.ch
                             \/ position.ch > end.ch
                             \/ position.line # start.line
                             \/ position.line # end.line
              IN  /\ SetHover(marked)
                  /\ IF outside \/ response.contents = "nullFirst"
                     THEN /\ SetOverlay(ShowTooltipWithData(hasData, ov, layout))
                          /\ lastOp' = [op |-> "handleHover",
                                        branch |-> IF outside THEN "outside" ELSE "nullFirst"]
                     ELSE /\ SetOverlay(ShowTooltip(ov, "hover", layout))
                          /\ lastOp' = [op |-> "handleHover", branch |-> "shown"]
  /\ UNCHANGED <<options, connVars, features, hint, bufVars, token, hoverCharacter, diagVars,
                 highlightMarkers, listenerVars, timerVars, flightVars>>

HandleRefresh ==
  /\ "refresh" \in editorOn
  /\ SetHover(RemoveHover(HoverState))
  /\ SetOverlay(RemoveTooltip(OverlayState))
  /\ calls' = <<>>
  /\ lastOp' = [op |-> "handleRefresh"]
  /\ UNCHANGED <<options, connVars, features, hint, bufVars, token, hoverCharacter, diagVars,
                 highlightMarkers, listenerVars, timerVars, flightVars>>

HandleScrollLeave ==
  /\ "scroll" \in editorOn
  /\ SetHover(RemoveHover(HoverState))
  /\ SetOverlay(RemoveTooltip(OverlayState))
  /\ calls' = <<>>
  /\ lastOp' = [op |-> "handleScrollLeave"]
  /\ UNCHANGED <<options, connVars, features, hint, bufVars, token, hoverCharacter, diagVars,
                 highlightMarkers, listenerVars, timerVars, flightVars>>

\* both statements of handleMouseLeave are commented out
HandleMouseLeave ==
  /\ "mouseleave" \in wrapperOn
  /\ calls' = <<>>
  /\ lastOp' = [op |-> "handleMouseLeave"]
  /\ UNCHANGED <<options, connVars, features, hint, bufVars, token, hoverVars, overlayVars,
                 editorMarks, diagVars, highlightMarkers, listenerVars, timerVars,
                 flightVars>>

----------------------------------------------------------------------------
(* Signature help *)

\* reading the length of a missing signatures list throws a TypeError
SignatureThrows(result, opts) ==
  opts.enableSignatures /\ result # None /\ "signatures" \notin DOMAIN result

\* the signature response arrives; layout is what the editor reports for the
\* overlay the handler shows, if it shows one
HandleSignature(result, layout) ==
  /\ "signature" \in connectionOn
  /\ signatureRequested
  /\ calls' = <<>>
  /\ LET ov == RemoveTooltip(RemoveSignatureWidget(OverlayState))
         threw == SignatureThrows(result, options)
         skip == \/ ~options.enableSignatures
                 \/ result = None
                 \/ threw
                 \/ Len(result.signatures) = 0
                 \/ token = None
     IN  /\ SetOverlay(IF skip THEN ov ELSE ShowTooltip(ov, "signature", layout))
         /\ lastOp' = [op |-> "handleSignature", shown |-> ~skip, threw |-> threw]
  /\ UNCHANGED <<options, connVars, features, hint, bufVars, token, hoverVars, editorMarks, diagVars,
                 highlightMarkers, listenerVars, timerVars, flightVars>>

----------------------------------------------------------------------------
(* The completion response *)

\* the completion showHint starts: it closes the one before it, records the
\* cursor and evaluates the hint function at once
ShowHint(start, bestSnippets, bestCompletions, tok) ==
  LET h == [start |-> start, bestSnippets |-> bestSnippets,
            bestCompletions |-> bestCompletions,
            startPos |-> cursor,
            tail |-> Len(doc[cursor.line + 1]) - cursor.ch]
  IN  [start |-> h.start, bestSnippets |-> h.bestSnippets,
       bestCompletions |-> h.bestCompletions, startPos |-> h.startPos,
       tail |-> h.tail, data |-> HintResult(h, tok), updates |-> 0]

\* the completion response arrives
HandleCompletion(completions) ==
  /\ "completion" \in connectionOn
  /\ completionRequested
  /\ calls' = <<>>
  /\ IF token = None \/ ~options.suggest
     THEN /\ UNCHANGED hint
          /\ lastOp' = [op |-> "handleCompletion", completions |-> completions,
                        returned |-> TRUE]
     ELSE LET bestCompletions == GetFilteredCompletions(token.text, completions, FALSE)
              bestSnippets == GetFilteredCompletions(token.text, snippets, TRUE)
              start == IF IsSingleNonWord(token.text) THEN token.end ELSE token.start
          IN  /\ hint' = ShowHint(start, bestSnippets, bestCompletions, token)
              /\ lastOp' = [op |-> "handleCompletion", completions |-> completions,
                            returned |-> FALSE, bestCompletions |-> bestCompletions,
                            bestSnippets |-> bestSnippets]
  /\ UNCHANGED <<options, connVars, features, bufVars, token, hoverVars, overlayVars,
                 editorMarks, diagVars, highlightMarkers, listenerVars, timerVars,
                 flightVars>>

----------------------------------------------------------------------------
(* Positioning the overlay: _showTooltip places the element at once and queues
   a callback that measures and moves it *)

\* the element a callback moves: the one this.tooltip references when it runs
CurrentElement(els, k) == Len(els)

\* the next animation frame runs the oldest queued callback: it measures and
\* moves this.tooltip with the top and altTop of the call that queued it
AnimationFrame ==
  /\ frames # <<>>
  /\ LET cb == Head(frames)
         el == CurrentElement(overlays, cb.of)
         top == cb.top + DefaultTextHeight - OffsetHeight(overlays[el])
         moved == [overlays EXCEPT ![el].top = IF top < 0 THEN cb.altTop ELSE top]
     IN  /\ overlays' = [moved EXCEPT ![cb.of].ticked = TRUE,
                                      ![cb.of].measured = OffsetHeight(overlays[cb.of])]
         /\ lastOp' = [op |-> "animationFrame", of |-> cb.of, moved |-> el]
  /\ frames' = Tail(frames)
  /\ calls' = <<>>
  /\ UNCHANGED <<options, connVars, features, hint, bufVars, token, hoverVars, tooltip,
                 isShowingContextMenu, orphanTooltips, editorMarks, diagVars,
                 highlightMarkers, listenerVars, timerVars, flightVars>>

----------------------------------------------------------------------------
(* Context menu and clicks *)

\* the entries the menu offers, in the order _handleRightClick builds them
MenuEntries(caps) ==
  (IF "definition" \in caps THEN <<"Go to Definition">> ELSE <<>>) \o
  (IF "typeDefinition" \in caps THEN <<"Go to Type Definition">> ELSE <<>>) \o
  (IF "references" \in caps THEN <<"Find all References">> ELSE <<>>)

\* every entry offered, whatever the connection supports
MenuActionsOfAll(caps, docPosition) ==
  <<[label |-> "Go to Definition", fn |-> "getDefinition", position |-> docPosition],
    [label |-> "Go to Type Definition", fn |-> "getTypeDefinition",
     position |-> docPosition],
    [label |-> "Find all References", fn |-> "getReferences", position |-> docPosition]>>

\* the entries with the request each one issues when it is activated
MenuActions(caps, docPosition) ==
  (IF "definition" \in caps
   THEN <<[label |-> "Go to Definition", fn |-> "getDefinition",
           position |-> docPosition]>> ELSE <<>>) \o
  (IF "typeDefinition" \in caps
   THEN <<[label |-> "Go to Type Definition", fn |-> "getTypeDefinition",
           position |-> docPosition]>> ELSE <<>>) \o
  (IF "references" \in caps
   THEN <<[label |-> "Find all References", fn |-> "getReferences",
           position |-> docPosition]>> ELSE <<>>)

\* the overlay whose element holds the entries of the menu
WithMenu(ov, actions) ==
  [ov EXCEPT !.tooltip = [kind |-> @.kind, attached |-> @.attached, menu |-> actions]]

\* a right-click on the editor wrapper; layout is what the browser reports for
\* the menu the handler shows, if it shows one
HandleRightClick(ev, layout) ==
  /\ "contextmenu" \in wrapperOn
  /\ calls' = <<>>
  /\ IF ~ev.insideVisible \/ ~ev.onCharacter \/ capabilities = {}
     THEN /\ lastOp' = [op |-> "handleRightClick", entries |-> <<>>, menu |-> "none",
                        before |-> ShownKind(OverlayState), actions |-> <<>>,
                        event |-> ev]
          /\ UNCHANGED <<overlayVars, features>>
     ELSE IF options.contextMenuProvider
     THEN /\ lastOp' = [op |-> "handleRightClick", entries |-> MenuEntries(capabilities),
                        menu |-> "provider", before |-> ShownKind(OverlayState),
                        actions |-> MenuActions(capabilities, ev.position),
                        event |-> ev]
          /\ features' = MenuActions(capabilities, ev.position)
          /\ UNCHANGED overlayVars
     ELSE /\ lastOp' = [op |-> "handleRightClick", entries |-> MenuEntries(capabilities),
                        menu |-> "built-in", before |-> ShownKind(OverlayState),
                        actions |-> MenuActions(capabilities, ev.position),
                        event |-> ev]
          /\ SetOverlay(WithMenu(ShowTooltip(OverlayState, "menu", layout),
                                 MenuActions(capabilities, ev.position)))
          /\ UNCHANGED features
  /\ UNCHANGED <<options, connVars, hint, bufVars, token, hoverVars, editorMarks, diagVars,
                 highlightMarkers, listenerVars, timerVars, flightVars>>

\* the entries of the built-in menu that can be clicked: those of the menu
\* element while it is mounted
ActiveMenu ==
  IF tooltip # None /\ tooltip.attached /\ tooltip.kind = "menu"
  THEN tooltip.menu
  ELSE <<>>

\* entry i of the mounted built-in menu is clicked: its click listener issues
\* the request; the click reaches _handleClickOutside with a target inside the
\* overlay, which leaves the overlay mounted
ActivateMenuEntry(i) ==
  /\ i \in 1..Len(ActiveMenu)
  /\ calls' = <<[fn |-> ActiveMenu[i].fn, position |-> ActiveMenu[i].position]>>
  /\ lastOp' = [op |-> "menuEntry", action |-> ActiveMenu[i]]
  /\ UNCHANGED <<options, connVars, features, hint, bufVars, token, hoverVars, overlayVars,
                 editorMarks, diagVars, highlightMarkers, listenerVars, timerVars,
                 flightVars>>

\* the provider runs the action of feature i it was last handed: the action
\* issues the request, whatever has happened since the right-click
RunFeatureAction(i) ==
  /\ i \in 1..Len(features)
  /\ calls' = <<[fn |-> features[i].fn, position |-> features[i].position]>>
  /\ lastOp' = [op |-> "featureAction", action |-> features[i]]
  /\ UNCHANGED <<options, connVars, features, hint, bufVars, token, hoverVars, overlayVars,
                 editorMarks, diagVars, highlightMarkers, listenerVars, timerVars,
                 flightVars>>

\* the overlay removed by every click, whatever its target
ClickedAnywhere(ov, inTooltip) ==
  IF ov.isShowingContextMenu THEN RemoveTooltip(ov) ELSE ov

\* the overlay _handleClickOutside leaves
ClickedOutside(ov, inTooltip) ==
  IF ov.isShowingContextMenu /\ ~inTooltip THEN RemoveTooltip(ov) ELSE ov

\* a click anywhere in the document; inTooltip: the target is inside an
\* element of class CodeMirror-lsp-tooltip
HandleClickOutside(inTooltip) ==
  /\ "click" \in documentOn
  /\ inTooltip => MountedOverlays(OverlayState) > 0
  /\ calls' = <<>>
  /\ lastOp' = [op |-> "handleClickOutside", inTooltip |-> inTooltip,
                before |-> ShownKind(OverlayState)]
  /\ SetOverlay(ClickedOutside(OverlayState, inTooltip))
  /\ UNCHANGED <<options, connVars, features, hint, bufVars, token, hoverVars, editorMarks, diagVars,
                 highlightMarkers, listenerVars, timerVars, flightVars>>

\* what _unhighlightRanges works on
HighlightState == [highlightMarkers |-> highlightMarkers, marks |-> editorMarks]

UnhighlightRanges(st) ==
  [highlightMarkers |-> <<>>, marks |-> st.marks (-) BagOfSeq(st.highlightMarkers)]

\* the editor gains focus
HandleClickInside ==
  /\ "focus" \in editorOn
  /\ LET st == UnhighlightRanges(HighlightState)
     IN  /\ highlightMarkers' = st.highlightMarkers
         /\ editorMarks' = st.marks
  /\ calls' = <<>>
  /\ lastOp' = [op |-> "handleClickInside", before |-> ShownKind(OverlayState),
                highlighted |-> Len(highlightMarkers)]
  /\ UNCHANGED <<options, connVars, features, hint, bufVars, token, hoverVars, overlayVars, diagVars,
                 listenerVars, timerVars, flightVars>>

----------------------------------------------------------------------------
(* Go-to responses *)

\* connection.getDocumentUri(), and the URI of another document
DocumentUri == "file:///current"
OtherUri == "file:///other"

\* lsProtocol.Location and lsProtocol.LocationLink
Location(uri, range) == [uri |-> uri, range |-> range]
LocationLink(uri, range) ==
  [targetUri |-> uri, targetRange |-> range, targetSelectionRange |-> range]

\* a response that is an array of locations or of links
LocationList(ls) == [locations |-> ls]

\* lsProtocol.Location.is and lsProtocol.LocationLink.is
IsLocation(l) == {"uri", "range"} \subseteq DOMAIN l
IsLocationLink(l) == {"targetUri", "targetRange"} \subseteq DOMAIN l

\* _highlightRanges
HighlightRanges(st, items) ==
  LET un == UnhighlightRanges(st)
      markers == [i \in 1..Len(items) |->
                    Mark(HighlightClass, ToPos(items[i].start), ToPos(items[i].end))]
  IN  [highlightMarkers |-> markers, marks |-> un.marks (+) BagOfSeq(markers)]

\* the filter on the document's URI left out
EntriesOfAnyDocument(ls, field) == ls

\* the entries of a list whose URI is the document's, in response order
EntriesOfDocument(ls, field) == SelectSeq(ls, LAMBDA l : l[field] = DocumentUri)

\* the ranges of a list of records, read from one field
RangesOf(ls, field) == [i \in 1..Len(ls) |-> ls[i][field]]

\* what handleGoTo does with a response after it has removed the tooltip: the
\* highlights it leaves, whether it calls editor.scrollIntoView and with what,
\* and whether it throws
WentTo(st, location) ==
  LET stay == [hl |-> st, scrolled |-> FALSE, scrollTo |-> None, threw |-> FALSE]
      list(all, field, rangeField) ==
        LET locations == EntriesOfDocument(all, field)
            hl == HighlightRanges(st, RangesOf(locations, rangeField))
        IN  IF Len(locations) = 0
            THEN [hl |-> hl, scrolled |-> FALSE, scrollTo |-> None, threw |-> TRUE]
            ELSE [hl |-> hl, scrolled |-> TRUE,
                  scrollTo |-> ToPos(locations[1][rangeField].start), threw |-> FALSE]
  IN  IF location = None THEN stay
      ELSE IF IsLocation(location)
      THEN IF location.uri # DocumentUri THEN stay
           ELSE [hl |-> HighlightRanges(st, <<location.range>>),
                 scrolled |-> TRUE, scrollTo |-> ToPos(location.range.start),
                 threw |-> FALSE]
      ELSE IF \A i \in 1..Len(location.locations) : IsLocation(location.locations[i])
      THEN list(location.locations, "uri", "range")
      ELSE IF \A i \in 1..Len(location.locations) : IsLocationLink(location.locations[i])
      THEN list(location.locations, "targetUri", "targetRange")
      ELSE [hl |-> st, scrolled |-> TRUE, scrollTo |-> None, threw |-> FALSE]

\* handleGoTo is called with the response of a definition, type definition or
\* references request
HandleGoTo(location) ==
  /\ LET went == WentTo(HighlightState, location)
     IN  /\ highlightMarkers' = went.hl.highlightMarkers
         /\ editorMarks' = went.hl.marks
         /\ lastOp' = [op |-> "handleGoTo", location |-> location,
                       scrolled |-> went.scrolled, scrollTo |-> went.scrollTo,
                       threw |-> went.threw]
  /\ SetOverlay(RemoveTooltip(OverlayState))
  /\ calls' = <<>>
  /\ UNCHANGED <<options, connVars, features, hint, bufVars, token, hoverVars, diagVars,
                 listenerVars, timerVars, flightVars>>

\* a list of document highlights, as a highlight response carries it
HighlightList(items) == [highlights |-> items]

\* items || []
HighlightItems(items) == IF items = None THEN <<>> ELSE items.highlights

\* handleHighlight is called with the document highlights of a position
HandleHighlight(items) ==
  /\ LET hl == HighlightRanges(HighlightState, RangesOf(HighlightItems(items), "range"))
     IN  /\ highlightMarkers' = hl.highlightMarkers
         /\ editorMarks' = hl.marks
  /\ lastOp' = [op |-> "handleHighlight", items |-> items]
  /\ calls' = <<>>
  /\ UNCHANGED <<options, connVars, features, hint, bufVars, token, hoverVars, overlayVars,
                 diagVars, listenerVars, timerVars, flightVars>>

\* the requests that are answered by a goTo event
GoToRequests == {"getDefinition", "getTypeDefinition", "getReferences"}

\* the connection emits goTo, the response to the request a menu entry has just
\* issued: the listener registered for goTo, if there is one, runs handleGoTo
EmitGoTo(location) ==
  /\ \E i \in 1..Len(calls) : calls[i].fn \in GoToRequests
  /\ IF "goTo" \in connectionOn
     THEN HandleGoTo(location)
     ELSE /\ lastOp' = [op |-> "emit", event |-> "goTo", location |-> location,
                        handled |-> FALSE]
          /\ calls' = <<>>
          /\ UNCHANGED <<options, connVars, features, hint, bufVars, token, hoverVars,
                         overlayVars, editorMarks, diagVars, highlightMarkers,
                         listenerVars, timerVars, flightVars>>

----------------------------------------------------------------------------
(* Setup and teardown *)

\* the listeners _addListeners registers
EditorListeners == {"change", "refresh", "scroll", "focus"}
WrapperListeners(opts) ==
  {"mouseleave", "mousemove"} \cup
  (IF opts.enableContextMenu THEN {"contextmenu"} ELSE {})
ConnectionListeners == {"hover", "completion", "signature", "diagnostic"}
DocumentListeners == {"click"}

\* the listeners remove() leaves registered on the editor: it calls
\* editor.off for 'change' and 'cursorActivity' only
EditorAfterRemove(on) == on \ {"change", "cursorActivity"}

\* on the wrapper: 'mousemove' is removed, 'contextmenu' only when the
\* current options still enable the context menu
WrapperAfterRemove(on, opts) ==
  (on \ {"mousemove"}) \ (IF opts.enableContextMenu THEN {"contextmenu"} ELSE {})

\* on the connection: every key of connectionListeners is removed
ConnectionAfterRemove(on) == on \ ConnectionListeners

\* on the document: removeEventListener is called with the keys of
\* documentListeners, 'clickOutside' and 'clickInside', which are no event names
DocumentAfterRemove(on) == on \ {"clickOutside", "clickInside"}

\* remove(): nothing keeps it from running again
Remove ==
  /\ removed' = TRUE
  /\ LET ov == RemoveTooltip(RemoveSignatureWidget(OverlayState))
         hs == RemoveHover(HoverState)
         ds == ClearDiagnostics([DiagState EXCEPT !.marks = hs.marks])
     IN  /\ SetOverlay(ov)
         /\ hoverMarker' = hs.hoverMarker
         /\ SetDiag(ds)
  /\ editorOn' = EditorAfterRemove(editorOn)
  /\ wrapperOn' = WrapperAfterRemove(wrapperOn, options)
  /\ connectionOn' = ConnectionAfterRemove(connectionOn)
  /\ documentOn' = DocumentAfterRemove(documentOn)
  /\ calls' = <<>>
  /\ lastOp' = [op |-> "remove"]
  /\ UNCHANGED <<options, connVars, features, hint, bufVars, token, hoverCharacter, highlightMarkers,
                 timerVars, flightVars>>

----------------------------------------------------------------------------
(* The state after construction *)

EnabledOptions ==
  [enableDiagnostics |-> TRUE, enableHoverInfo |-> TRUE, enableSignatures |-> TRUE,
   enableGutterMarks |-> TRUE, enableContextMenu |-> TRUE, suggest |-> TRUE,
   contextMenuProvider |-> FALSE]

\* the adapter constructed with the snippets snip on an editor that holds the
\* document d, its cursor at c; tok is the pending token (None after
\* construction), for which a completion has been requested
ConstructedWith(opts, completionChars, signatureChars, caps, d, c, snip, tok) ==
  /\ options = opts
  /\ completionCharacters = completionChars
  /\ signatureCharacters = signatureChars
  /\ capabilities = caps
  /\ snippets = snip
  /\ doc = d
  /\ cursor = c
  /\ token = tok
  /\ hoverMarker = None
  /\ hoverCharacter = None
  /\ tooltip = None
  /\ isShowingContextMenu = FALSE
  /\ orphanTooltips = 0
  /\ editorMarks = EmptyBag
  /\ markedDiagnostics = <<>>
  /\ diagnosticResults = <<>>
  /\ gutter = EmptyGutter
  /\ highlightMarkers = <<>>
  /\ editorOn = EditorListeners
  /\ wrapperOn = WrapperListeners(opts)
  /\ connectionOn = ConnectionListeners
  /\ documentOn = DocumentListeners
  /\ removed = FALSE
  /\ changeTimer = 0
  /\ hoverTimer = None
  /\ hoverRequested = {}
  /\ hoverCalled = None
  /\ completionRequested = (tok # None)
  /\ hint = None
  /\ overlays = <<>>
  /\ frames = <<>>
  /\ features = <<>>
  /\ signatureRequested = FALSE
  /\ calls = <<>>
  /\ lastOp = [op |-> "constructor"]


\* the adapter constructed without snippets on an editor that holds the
\* document d, its cursor at c
ConstructedOn(opts, completionChars, signatureChars, caps, d, c) ==
  ConstructedWith(opts, completionChars, signatureChars, caps, d, c, None, None)

\* the adapter constructed on an empty editor
Constructed(opts, completionChars, signatureChars, caps) ==
  ConstructedOn(opts, completionChars, signatureChars, caps, << <<>> >>, Pos(0, 0))

----------------------------------------------------------------------------
(* Inputs *)

\* a word character, a completion trigger, a signature trigger, other punctuation
Chars == {"a", ".", "(", ";"}

\* the characters of a document, a line break counting as one
DocLength(d) ==
  LET RECURSIVE Sum(_)
      Sum(i) == IF i = 0 THEN 0 ELSE Len(d[i]) + Sum(i - 1)
  IN  Sum(Len(d)) + Len(d) - 1

\* the positions the cursor can take in a document
Cursors(d) ==
  UNION {{Pos(i - 1, c) : c \in 0..Len(d[i])} : i \in 1..Len(d)}

\* typing character c at the cursor (replaceSelection)
InsertChar(d, at, c) ==
  LET line == d[at.line + 1]
  IN  [doc |-> [d EXCEPT ![at.line + 1] =
                  SubSeq(line, 1, at.ch) \o <<c>> \o SubSeq(line, at.ch + 1, Len(line))],
       cursor |-> Pos(at.line, at.ch + 1)]

\* typing a line break at the cursor
InsertNewline(d, at) ==
  LET line == d[at.line + 1]
  IN  [doc |-> SubSeq(d, 1, at.line) \o
               <<SubSeq(line, 1, at.ch), SubSeq(line, at.ch + 1, Len(line))>> \o
               SubSeq(d, at.line + 2, Len(d)),
       cursor |-> Pos(at.line + 1, 0)]

\* deleting the character before the cursor
Backspace(d, at) ==
  LET line == d[at.line + 1]
  IN  IF at.ch > 0
      THEN [doc |-> [d EXCEPT ![at.line + 1] =
                       SubSeq(line, 1, at.ch - 1) \o SubSeq(line, at.ch + 1, Len(line))],
            cursor |-> Pos(at.line, at.ch - 1)]
      ELSE [doc |-> SubSeq(d, 1, at.line - 1) \o <<d[at.line] \o line>> \o
                    SubSeq(d, at.line + 2, Len(d)),
            cursor |-> Pos(at.line - 1, Len(d[at.line]))]

\* editor.setValue(text): the cursor goes to the start of the document
SetValue(d) == [doc |-> d, cursor |-> Pos(0, 0)]

\* the single edits of a document of at most MaxLen characters
Edits(d, at) ==
  (IF DocLength(d) < MaxLen
   THEN {InsertChar(d, at, c) : c \in Chars} \cup {InsertNewline(d, at)}
   ELSE {}) \cup
  (IF at.ch > 0 \/ at.line > 0 THEN {Backspace(d, at)} ELSE {}) \cup
  {SetValue(<< <<>> >>)}

CompletionSets == {{}, {"."}, {".", "("}}
SignatureSets == {{}, {"("}, {"(", "a"}}

\* protocol positions and ranges
LspPos(l, c) == [line |-> l, character |-> c]
LspRange(l1, c1, l2, c2) == [start |-> LspPos(l1, c1), end |-> LspPos(l2, c2)]

Diagnostics ==
  [range : {LspRange(0, 0, 0, 2), LspRange(0, 1, 0, 2), LspRange(1, 0, 1, 1)},
   message : {"m1", "m2"}]

\* publications of up to MaxDiags diagnostics
Publications == {[diagnostics |-> ds] : ds \in UNION {[1..k -> Diagnostics] : k \in 0..MaxDiags}}

DiagnosticOptions ==
  {[EnabledOptions EXCEPT !.enableDiagnostics = d, !.enableGutterMarks = g] :
     d \in BOOLEAN, g \in BOOLEAN}

----------------------------------------------------------------------------
(* The change track: typing, debounced *)

InitChange ==
  \E cc \in CompletionSets, sc \in SignatureSets :
    Constructed(EnabledOptions, cc, sc, {})

NextChange ==
  \/ \E e \in Edits(doc, cursor) : ChangeEvent(e.doc, e.cursor)
  \/ \E c \in Cursors(doc) : CursorActivity(c)
  \/ HandleChange

SpecChange == InitChange /\ [][NextChange]_vars

----------------------------------------------------------------------------
(* The diagnostics track *)

InitDiag ==
  \E o \in DiagnosticOptions : Constructed(o, {"."}, {"("}, {})

NextDiag ==
  \/ \E r \in Publications : HandleDiagnostic(r)
  \/ \E o \in DiagnosticOptions : UpdateOptions(o)

SpecDiag == InitDiag /\ [][NextDiag]_vars

----------------------------------------------------------------------------
(* Inputs of the whole adapter *)

\* what the tests type: replaceSelection leaves the cursor after the text,
\* setValue at the start of the document
Typings ==
  {[doc |-> << <<"(">> >>, cursor |-> Pos(0, 1)],
   [doc |-> << <<"(", "a">> >>, cursor |-> Pos(0, 2)],
   [doc |-> << <<"(", ";">> >>, cursor |-> Pos(0, 2)],
   SetValue(<< <<"(", "a">> >>)}

\* the typing of the whole-adapter track: a signature trigger, other
\* punctuation after it, and a text set with the cursor at its start
AdapterTypings ==
  {[doc |-> << <<"(">> >>, cursor |-> Pos(0, 1)],
   [doc |-> << <<"(", ";">> >>, cursor |-> Pos(0, 2)],
   SetValue(<< <<"(", "a">> >>)}

AdapterOptions ==
  {EnabledOptions,
   [EnabledOptions EXCEPT !.enableContextMenu = FALSE],
   [EnabledOptions EXCEPT !.enableSignatures = FALSE, !.contextMenuProvider = TRUE],
   [EnabledOptions EXCEPT !.enableHoverInfo = FALSE],
   [EnabledOptions EXCEPT !.enableHoverInfo = FALSE, !.enableDiagnostics = FALSE]}

\* what the connection of the tests supports
Capabilities == {"definition", "references"}

\* pointer events: is a token under the pointer, is the target the overlay or
\* a link, is the target inside the CodeMirror element, the document position
MouseEvent(onCharacter, onTooltip, insideVisible, position) ==
  [onCharacter |-> onCharacter, onTooltip |-> onTooltip,
   insideVisible |-> insideVisible, position |-> position]

MouseEvents ==
  {MouseEvent(FALSE, FALSE, TRUE, Pos(0, 0)),
   MouseEvent(TRUE, TRUE, TRUE, Pos(0, 0)),
   MouseEvent(TRUE, FALSE, FALSE, Pos(0, 0)),
   MouseEvent(TRUE, FALSE, TRUE, Pos(0, 0))}

\* right-clicks: off any token, outside the editor, on a token inside it
RightClicks ==
  {MouseEvent(FALSE, FALSE, TRUE, Pos(0, 0)),
   MouseEvent(TRUE, FALSE, FALSE, Pos(0, 0)),
   MouseEvent(TRUE, FALSE, TRUE, Pos(0, 0))}

\* hover responses: null, or contents of one shape with or without a range
HoverResponse(contents, range) == [contents |-> contents, range |-> range]

HoverResponses ==
  {None,
   HoverResponse("nullFirst", None),
   HoverResponse("text", None),
   HoverResponse("text", LspRange(0, 0, 0, 1)),
   HoverResponse("text", LspRange(0, 1, 0, 2))}

SignatureResults ==
  {None, [signatures |-> <<>>], [signatures |-> <<"log(message: any)">>]}

SmallPublications ==
  {[diagnostics |-> <<>>],
   [diagnostics |-> <<[range |-> LspRange(0, 0, 0, 2), message |-> "m1"]>>]}

\* the target coordinates and the rendered heights of the overlays
Layouts == {Layout(y, h) : y \in 0..MaxY, h \in 1..MaxHeight}

\* the layout of the tracks that do not look at positions: an overlay of one
\* line shown for the first line of the editor
ShownLayouts == {Layout(0, 1)}

----------------------------------------------------------------------------
(* The hover track: pointer moves, the debounced request, its responses and
   the invalidations *)

\* the positions the pointer resolves to
HoverPositions == {Pos(0, c) : c \in 0..MaxHoverCh}

\* pointer moves over the wrapper; a target on the overlay is inside the editor
HoverMoves ==
  {MouseEvent(oc, ot, iv, p) :
     <<oc, ot, iv, p>> \in {t \in BOOLEAN \X BOOLEAN \X BOOLEAN \X HoverPositions :
                              t[2] => t[3]}}

HoverOptions ==
  {EnabledOptions,
   [EnabledOptions EXCEPT !.enableHoverInfo = FALSE],
   [EnabledOptions EXCEPT !.enableHoverInfo = FALSE, !.enableDiagnostics = FALSE]}

InitHover ==
  \E o \in HoverOptions : Constructed(o, {"."}, {"("}, Capabilities)

NextHover ==
  \/ \E ev \in HoverMoves : HandleMouseOver(ev)
  \/ DebouncedGetHover
  \/ \E r \in HoverResponses, p \in hoverRequested, g \in ShownLayouts :
       HandleHover(r, p, g)
  \/ \E r \in SmallPublications : HandleDiagnostic(r)
  \/ HandleRefresh
  \/ HandleScrollLeave
  \/ HandleMouseLeave

SpecHover == InitHover /\ [][NextHover]_vars

----------------------------------------------------------------------------
(* The navigation track: the context menu, its entries, go-to responses and
   clicks *)

\* the capabilities a connection may support
AllCapabilities == {"definition", "typeDefinition", "references"}

\* what the connections considered support
CapabilitySets == {{}, Capabilities, AllCapabilities}

\* right-clicks off any token, outside the editor, and on a token inside it
MenuClicks ==
  {MouseEvent(FALSE, FALSE, TRUE, Pos(0, 0)),
   MouseEvent(TRUE, FALSE, FALSE, Pos(0, 0))} \cup
  {MouseEvent(TRUE, FALSE, TRUE, p) : p \in {Pos(0, 0), Pos(0, 1)}}

MenuOptions == {EnabledOptions, [EnabledOptions EXCEPT !.contextMenuProvider = TRUE]}

\* the ranges and the entries of go-to responses
GoToRanges == {LspRange(0, 0, 0, 1), LspRange(1, 0, 1, 1)}
GoToEntries ==
  {Location(DocumentUri, r) : r \in GoToRanges} \cup
  {Location(OtherUri, LspRange(0, 0, 0, 1)),
   LocationLink(DocumentUri, LspRange(1, 0, 1, 1)),
   LocationLink(OtherUri, LspRange(0, 0, 0, 1))}

\* go-to responses: null, one location, or a list of up to MaxLocations entries
GoToResponses ==
  {None} \cup
  {Location(u, LspRange(0, 0, 0, 1)) : u \in {DocumentUri, OtherUri}} \cup
  {LocationList(ls) : ls \in UNION {[1..k -> GoToEntries] : k \in 0..MaxLocations}}

InitGoTo ==
  \E o \in MenuOptions, caps \in CapabilitySets :
    Constructed(o, {"."}, {"("}, caps)

NextGoTo ==
  \/ \E ev \in MenuClicks, g \in ShownLayouts : HandleRightClick(ev, g)
  \/ \E i \in 1..Cardinality(AllCapabilities) : ActivateMenuEntry(i)
  \/ \E i \in 1..Cardinality(AllCapabilities) : RunFeatureAction(i)
  \/ \E l \in GoToResponses : HandleGoTo(l)
  \/ \E b \in BOOLEAN : HandleClickOutside(b)
  \/ HandleClickInside

SpecGoTo == InitGoTo /\ [][NextGoTo]_vars

----------------------------------------------------------------------------
(* Token extraction on its own: _getTokenEndingAtPosition applied to the
   editor's text at the cursor *)

\* the lines of 1..MaxTokenLine characters
TokenLines == UNION {[1..n -> Chars] : n \in 1..MaxTokenLine}

\* the split-character sets it is called with
SplitSets == {{}, {"."}, {".", "("}}

\* _getTokenEndingAtPosition is applied to the editor's text and cursor
ExtractToken(splitCharacters) ==
  /\ token' = GetTokenEndingAtPosition(JoinLines(doc), cursor, splitCharacters)
  /\ calls' = <<>>
  /\ lastOp' = [op |-> "getTokenEndingAtPosition", splitCharacters |-> splitCharacters]
  /\ UNCHANGED <<options, connVars, features, hint, bufVars, hoverVars, overlayVars, editorMarks,
                 diagVars, highlightMarkers, listenerVars, timerVars, flightVars>>

InitToken ==
  \E line \in TokenLines : \E ch \in 1..Len(line) :
    ConstructedOn(EnabledOptions, {"."}, {"("}, {}, <<line>>, Pos(0, ch))

NextToken == \E sc \in SplitSets : ExtractToken(sc)

SpecToken == InitToken /\ [][NextToken]_vars

----------------------------------------------------------------------------
(* Filtering on its own: _getFilteredCompletions applied by handleCompletion
   to the response and to the snippets, for a pending token *)

\* the candidates of a response: a label, with or without a filter text
FilterItems ==
  {CompletionItem(l, f, <<>>) :
     l \in {<<"l", "e">>, <<"L", "e">>, <<"l", "e", "f", "t">>, <<"m", "a", "p">>},
     f \in {<<>>, <<"l", "e", "m", "o", "n">>}}

\* responses of up to MaxItems candidates
CompletionLists == {ItemList(l) : l \in UNION {[1..n -> FilterItems] : n \in 0..MaxItems}}

\* the snippets the adapter is constructed with
SnippetLists ==
  {None,
   ItemList(<<CompletionItem(<<"m", "a", "p">>, <<"l", "e", "m", "o", "n">>, <<"m", "$", "0">>),
              CompletionItem(<<"l", "e">>, <<>>, <<>>),
              CompletionItem(<<"L", "E", "f", "t">>, <<>>, <<>>)>>)}

\* the pending tokens: a word, a word in capitals, a trigger character
FilterTokens ==
  {[text |-> <<"l", "e">>, start |-> Pos(0, 0), end |-> Pos(0, 2)],
   [text |-> <<"L", "E">>, start |-> Pos(0, 0), end |-> Pos(0, 2)],
   [text |-> <<".">>, start |-> Pos(0, 2), end |-> Pos(0, 3)]}

InitFilter ==
  \E tok \in FilterTokens, snip \in SnippetLists, suggest \in BOOLEAN :
    ConstructedWith([EnabledOptions EXCEPT !.suggest = suggest], {"."}, {"("}, {},
                    <<<<"l", "e", ".">>>>, tok.end, snip, tok)

\* one response for each pending token, after updateSnippets or without it,
\* then one entry of its hint list picked and the change it makes handled: the
\* filter reads the token, the snippets and the response, and handleCompletion
\* changes none of them
NextFilter ==
  \/ /\ lastOp.op = "constructor"
     /\ \E s \in SnippetLists : UpdateSnippets(s)
  \/ /\ lastOp.op \in {"constructor", "updateSnippets"}
     /\ \E completions \in CompletionLists : HandleCompletion(completions)
  \/ /\ lastOp.op = "handleCompletion"
     /\ \E i \in 1..(MaxItems + 3) : PickHint(i)
  \/ /\ lastOp.op = "pick"
     /\ HandleChange

SpecFilter == InitFilter /\ [][NextFilter]_vars

----------------------------------------------------------------------------
(* The completion track: typing, debounced, the responses to its requests and
   the entries picked from the hint list, while the document stays within
   MaxLen characters *)

\* the server's completion triggers; a trigger may be a word character
CompletionTriggers == {{"."}, {".", "a"}}

\* the candidates of a response: two labels, a label with a filter text, an
\* empty label
Candidates ==
  {CompletionItem(<<"a", "b">>, <<>>, <<>>),
   CompletionItem(<<"b">>, <<>>, <<>>),
   CompletionItem(<<"b", "a">>, <<"a">>, <<>>),
   CompletionItem(<<>>, <<>>, <<>>)}

\* responses of up to MaxItems candidates
CompletionResponses ==
  {ItemList(l) : l \in UNION {[1..n -> Candidates] : n \in 0..MaxItems}}

CompletionSnippets ==
  {None, ItemList(<<CompletionItem(<<"a">>, <<>>, <<"a", "$", "0">>)>>)}

\* typing a word character, a trigger or other punctuation at the cursor of a
\* document of at most MaxLen characters, or deleting the character before it
CompletionEdits(d, at) ==
  (IF DocLength(d) < MaxLen
   THEN {InsertChar(d, at, c) : c \in {"a", ".", ";"}}
   ELSE {}) \cup
  (IF at.ch > 0 THEN {Backspace(d, at)} ELSE {})

InitCompletion ==
  \E cc \in CompletionTriggers, snip \in CompletionSnippets, suggest \in BOOLEAN :
    ConstructedWith([EnabledOptions EXCEPT !.suggest = suggest], cc, {"("}, {},
                    << <<>> >>, Pos(0, 0), snip, None)

NextCompletion ==
  \/ \E e \in CompletionEdits(doc, cursor) : ChangeEvent(e.doc, e.cursor)
  \/ HandleChange
  \/ \E r \in CompletionResponses : HandleCompletion(r)
  \/ \E i \in 1..(MaxItems + 1) : PickHint(i) /\ DocLength(doc') <= MaxLen

SpecCompletion == InitCompletion /\ [][NextCompletion]_vars

----------------------------------------------------------------------------
(* Responses that are null, lack their field or are empty, after the requests
   that precede them *)

EmptyHovers == {None, HoverResponse("missing", None), HoverResponse("emptyArray", None)}

EmptyCompletions == {None, ItemList(<<>>)}

\* null, a result without its signatures list, an empty list
EmptySignatures == {None, [activeSignature |-> 0], [signatures |-> <<>>]}

\* null, a publication without its diagnostics list, an empty list
EmptyPublications == {None, [uri |-> DocumentUri], [diagnostics |-> <<>>]}

\* the pointer over the character at (0, 0)
PointerMoves == {MouseEvent(TRUE, FALSE, TRUE, Pos(0, 0))}

InitMalformed ==
  \E o \in HoverOptions : Constructed(o, {"."}, {"("}, Capabilities)

NextMalformed ==
  \/ \E e \in Typings : ChangeEvent(e.doc, e.cursor)
  \/ HandleChange
  \/ \E ev \in PointerMoves : HandleMouseOver(ev)
  \/ DebouncedGetHover
  \/ \E r \in EmptyHovers, p \in hoverRequested, g \in ShownLayouts :
       HandleHover(r, p, g)
  \/ \E r \in EmptyCompletions : HandleCompletion(r)
  \/ \E r \in EmptySignatures, g \in ShownLayouts : HandleSignature(r, g)
  \/ \E r \in EmptyPublications \cup SmallPublications : HandleDiagnostic(r)

SpecMalformed == InitMalformed /\ [][NextMalformed]_vars

----------------------------------------------------------------------------
(* Highlights: the responses that set them and the focus that clears them *)

\* highlight responses: null, or a list of up to MaxLocations highlights
HighlightResponses ==
  {None} \cup
  {HighlightList(hs) :
     hs \in UNION {[1..k -> {[range |-> r] : r \in GoToRanges}] : k \in 0..MaxLocations}}

InitHighlight == Constructed(EnabledOptions, {"."}, {"("}, Capabilities)

NextHighlight ==
  \/ \E l \in GoToResponses : HandleGoTo(l)
  \/ \E h \in HighlightResponses : HandleHighlight(h)
  \/ HandleClickInside

SpecHighlight == InitHighlight /\ [][NextHighlight]_vars

----------------------------------------------------------------------------
(* Dispatch of the go-to responses: the context menu issues the requests, the
   connection emits the responses *)

InitDispatch ==
  \E o \in MenuOptions, caps \in CapabilitySets :
    Constructed(o, {"."}, {"("}, caps)

NextDispatch ==
  \/ \E ev \in MenuClicks, g \in ShownLayouts : HandleRightClick(ev, g)
  \/ \E i \in 1..Cardinality(AllCapabilities) : ActivateMenuEntry(i)
  \/ \E i \in 1..Cardinality(AllCapabilities) : RunFeatureAction(i)
  \/ \E l \in GoToResponses : EmitGoTo(l)
  \/ \E b \in BOOLEAN : HandleClickOutside(b)

SpecDispatch == InitDispatch /\ [][NextDispatch]_vars

----------------------------------------------------------------------------
(* The positioning track: the handlers that show an overlay with what leads to
   them, the click that removes it, and the animation frames between them *)

InitTooltip == Constructed(EnabledOptions, {"."}, {"("}, Capabilities)

NextTooltip ==
  \/ \E ev \in PointerMoves, g \in Layouts : HandleRightClick(ev, g)
  \/ ChangeEvent(<< <<"(">> >>, Pos(0, 1))
  \/ HandleChange
  \/ \E r \in SignatureResults, g \in Layouts : HandleSignature(r, g)
  \/ \E ev \in PointerMoves : HandleMouseOver(ev)
  \/ DebouncedGetHover
  \/ \E r \in HoverResponses, p \in hoverRequested, g \in Layouts :
       HandleHover(r, p, g)
  \/ \E b \in BOOLEAN : HandleClickOutside(b)
  \/ AnimationFrame

SpecTooltip == InitTooltip /\ [][NextTooltip]_vars

----------------------------------------------------------------------------
(* The signature track: typing, debounced, and the signature responses *)

InitSignature == Constructed(EnabledOptions, {"."}, {"("}, Capabilities)

NextSignature ==
  \/ \E e \in Edits(doc, cursor) : ChangeEvent(e.doc, e.cursor)
  \/ HandleChange
  \/ \E r \in SignatureResults, g \in ShownLayouts : HandleSignature(r, g)

SpecSignature == InitSignature /\ [][NextSignature]_vars

----------------------------------------------------------------------------
(* The whole adapter: the handlers of the editor, of the pointer and of the
   connection, the timers, updateOptions and remove(); the animation frames
   run in the positioning track *)

\* the options updateOptions is called with
UpdatedOptions ==
  {EnabledOptions,
   [EnabledOptions EXCEPT !.enableContextMenu = FALSE],
   [EnabledOptions EXCEPT !.enableHoverInfo = FALSE, !.enableDiagnostics = FALSE]}

Init ==
  \/ \E o \in AdapterOptions : Constructed(o, {"."}, {"("}, Capabilities)
  \/ Constructed(EnabledOptions, {"."}, {"("}, {})

Next ==
  \/ \E e \in AdapterTypings : ChangeEvent(e.doc, e.cursor)
  \/ HandleChange
  \/ \E ev \in MouseEvents : HandleMouseOver(ev)
  \/ DebouncedGetHover
  \/ \E r \in HoverResponses, p \in hoverRequested, g \in ShownLayouts :
       HandleHover(r, p, g)
  \/ \E r \in SignatureResults, g \in ShownLayouts : HandleSignature(r, g)
  \/ \E r \in SmallPublications : HandleDiagnostic(r)
  \/ \E ev \in RightClicks, g \in ShownLayouts : HandleRightClick(ev, g)
  \/ \E b \in BOOLEAN : HandleClickOutside(b)
  \/ HandleClickInside
  \/ HandleRefresh
  \/ HandleScrollLeave
  \/ HandleMouseLeave
  \/ \E o \in UpdatedOptions : UpdateOptions(o)
  \/ Remove

Spec == Init /\ [][Next]_vars

----------------------------------------------------------------------------
(* What the claims observe *)

\* the calls of the latest step to one connection method
CallsTo(fn) == SelectSeq(calls, LAMBDA c : c.fn = fn)

\* the latest step was a run of handleChange
Handled == lastOp.op = "handleChange"

----------------------------------------------------------------------------
(* Claims about the overlay and the teardown, checked under Spec *)

\* C1: at most one tooltip or context-menu overlay is mounted in the editor
\* wrapper, whatever handlers have run; an overlay that is shown replaces the
\* one mounted before, so no overlay stays mounted that this.tooltip does not
\* reference.
C1_AtMostOneOverlay ==
  /\ MountedOverlays(OverlayState) <= 1
  /\ orphanTooltips = 0

\* a right-click opened the menu while the signature overlay was showing
C1_Witness ==
  /\ lastOp.op = "handleRightClick"
  /\ lastOp.before = "signature"
  /\ ShownKind(OverlayState) = "menu"
  /\ MountedOverlays(OverlayState) = 1

\* C2: after remove() every listener registered during setup is deregistered:
\* on the editor, on the wrapper element, on the connection and on the document.
C2_EveryListenerRemoved ==
  removed => /\ editorOn = {}
             /\ wrapperOn = {}
             /\ connectionOn = {}
             /\ documentOn = {}

\* C3: after remove() no step issues a connection call and none creates a
\* marker or an overlay, debounce timers started before remove() included.
C3_QuietAfterRemove ==
  removed => /\ calls = <<>>
             /\ MountedOverlays(OverlayState) = 0
             /\ hoverMarker = None
             /\ markedDiagnostics = <<>>
             /\ editorMarks = EmptyBag

----------------------------------------------------------------------------
(* Claims about the change track, checked under SpecChange *)

\* C4: a change notification is sent for every buffer change: when the
\* debounce quiet period ends, sendChange has been called once for each change
\* event since the listener last ran (so n times after n change events).
C4_SendChangePerChange ==
  Handled => Len(CallsTo("sendChange")) = lastOp.changes

\* C5: when the character before the cursor is a word character in neither
\* trigger set, the handled change issues exactly one getCompletion, with
\* trigger kind Invoked and an empty trigger character, and no getSignatureHelp.
C5_WordCharacterInvokes ==
  (Handled /\ TypedCharacter \in WordCharacters
           /\ TypedCharacter \notin completionCharacters \cup signatureCharacters)
  => /\ Len(CallsTo("getCompletion")) = 1
     /\ CallsTo("getCompletion")[1].triggerKind = Invoked
     /\ CallsTo("getCompletion")[1].triggerCharacter = ""
     /\ CallsTo("getCompletion")[1].position = cursor
     /\ Len(CallsTo("getSignatureHelp")) = 0

C5_Witness ==
  /\ Handled
  /\ TypedCharacter = "a"
  /\ "a" \notin completionCharacters \cup signatureCharacters
  /\ Len(CallsTo("getCompletion")) = 1
  /\ lastOp.changes > 1

\* C6: when the character before the cursor is a completion trigger, the
\* handled change issues exactly one getCompletion, with trigger kind
\* TriggerCharacter, that character as trigger character, and a token whose
\* text is exactly that character, spanning [ch-1, ch].
C6_TriggerCharacterCompletes ==
  (Handled /\ TypedCharacter \in completionCharacters)
  => /\ Len(CallsTo("getCompletion")) = 1
     /\ CallsTo("getCompletion")[1] =
          [fn |-> "getCompletion",
           position |-> cursor,
           token |-> [text |-> <<TypedCharacter>>,
                      start |-> Pos(cursor.line, cursor.ch - 1),
                      end |-> cursor],
           triggerCharacter |-> TypedCharacter,
           triggerKind |-> TriggerCharacter]

C6_Witness ==
  /\ Handled
  /\ TypedCharacter = "."
  /\ "." \in completionCharacters
  /\ cursor.ch = 2
  /\ Len(CallsTo("getCompletion")) = 1
  /\ CallsTo("getCompletion")[1].token.text = <<".">>

\* C7: getSignatureHelp is requested only by a handled change whose preceding
\* character is a signature trigger and no completion trigger, and every such
\* change requests it exactly once; with no signature triggers it is never
\* requested.
C7_SignatureOnlyOnTrigger ==
  Len(CallsTo("getSignatureHelp")) =
    IF Handled /\ TypedCharacter \in signatureCharacters \ completionCharacters
    THEN 1 ELSE 0

C7_Witness ==
  /\ Handled
  /\ TypedCharacter = "("
  /\ "(" \in signatureCharacters \ completionCharacters
  /\ calls = <<[fn |-> "sendChange"], [fn |-> "getSignatureHelp", position |-> cursor]>>

----------------------------------------------------------------------------
(* Claims about the signature overlay, checked under SpecSignature *)

\* the handled change issued no request: no character before the cursor, or
\* a non-word character in neither trigger set
NoRequestChange ==
  \/ TypedCharacter = Undefined
  \/ /\ TypedCharacter \notin completionCharacters \cup signatureCharacters
     /\ TypedCharacter \notin WordCharacters

\* C8 as claimed: once a signature response has mounted its overlay, after any
\* further handled buffer change no signature overlay is mounted (until a new
\* signature response arrives).
C8_AnyChangeClearsSignature ==
  (Handled /\ lastOp.before = "signature") => ShownKind(OverlayState) # "signature"

\* C8 as amended: a handled buffer change that issues no request clears a
\* showing signature overlay, and a handled change that requests completion or
\* signature help leaves it mounted.
C8_NoRequestChangeClearsSignature ==
  (Handled /\ lastOp.before = "signature")
  => /\ NoRequestChange => MountedOverlays(OverlayState) = 0
     /\ ~NoRequestChange => ShownKind(OverlayState) = "signature"

C8_Witness ==
  /\ Handled
  /\ lastOp.before = "signature"
  /\ TypedCharacter = ";"
  /\ tooltip # None
  /\ tooltip.kind = "signature"
  /\ ~tooltip.attached
  /\ MountedOverlays(OverlayState) = 0

----------------------------------------------------------------------------
(* Claims about diagnostics, checked under SpecDiag *)

\* the latest step was a publication handled with diagnostics enabled
Published == lastOp.op = "handleDiagnostic" /\ options.enableDiagnostics

\* the diagnostics of the latest publication
LastDiagnostics == lastOp.response.diagnostics

\* the editor's markers of the diagnostic class
DiagnosticMarks == MarksOfClass(editorMarks, DiagnosticClass)

\* the lines of the gutter that hold a marker
GutterMarkers == {l \in GutterLines : gutter[l] # Undefined}

\* C9: one publication of two diagnostics with the same range and different
\* messages leaves exactly one marked range, one tracker entry holding both
\* messages in publication order and, with gutter marks enabled, exactly one
\* gutter marker, on that line.
C9_SameRangeMergedIntoOne ==
  (/\ Published
   /\ Len(LastDiagnostics) = 2
   /\ LastDiagnostics[1].range = LastDiagnostics[2].range
   /\ LastDiagnostics[1].message # LastDiagnostics[2].message)
  => /\ BagCardinality(DiagnosticMarks) = 1
     /\ Len(diagnosticResults) = 1
     /\ diagnosticResults[1].text =
          <<LastDiagnostics[1].message, LastDiagnostics[2].message>>
     /\ lastOp.gutterMarks =>
          GutterMarkers = {LastDiagnostics[1].range.start.line}

\* C10: after a publication handled with diagnostics enabled, the marks, the
\* tracker entries and the gutter markers are those of that publication alone:
\* one mark per diagnostic, one entry per distinct range holding the messages
\* of that range in order, a gutter marker on exactly the lines where a
\* diagnostic starts (when gutter marks are enabled); an empty publication
\* leaves none.
C10_LatestPublicationOnly ==
  Published =>
    LET ds == LastDiagnostics
        range(i) == <<ToPos(ds[i].range.start), ToPos(ds[i].range.end)>>
        messagesOf(r) ==
          LET idx == {i \in 1..Len(ds) : range(i) = r}
              RECURSIVE Collect(_)
              Collect(i) == IF i > Len(ds) THEN <<>>
                            ELSE (IF i \in idx THEN <<ds[i].message>> ELSE <<>>)
                                 \o Collect(i + 1)
          IN  Collect(1)
    IN  /\ DiagnosticMarks =
             BagOfSeq([i \in 1..Len(ds) |->
                         Mark(DiagnosticClass, range(i)[1], range(i)[2])])
        /\ BagOfSeq(markedDiagnostics) = DiagnosticMarks
        /\ {<<e.start, e.end>> : e \in {diagnosticResults[k] : k \in 1..Len(diagnosticResults)}}
             = {range(i) : i \in 1..Len(ds)}
        /\ \A k \in 1..Len(diagnosticResults) :
             diagnosticResults[k].text =
               messagesOf(<<diagnosticResults[k].start, diagnosticResults[k].end>>)
        /\ GutterMarkers =
             IF lastOp.gutterMarks
             THEN {ds[i].range.start.line : i \in 1..Len(ds)} ELSE {}
        /\ \A l \in GutterMarkers :
             \E i \in 1..Len(ds) : ds[i].range.start.line = l /\ gutter[l] = ds[i].message
        /\ Len(ds) = 0 =>
             /\ editorMarks = EmptyBag
             /\ diagnosticResults = <<>>

\* a publication of one diagnostic on line 1 replaced what an earlier
\* publication of two diagnostics had left
C10_Witness ==
  /\ Published
  /\ lastOp.before = 2
  /\ lastOp.gutterMarks
  /\ Len(LastDiagnostics) = 1
  /\ LastDiagnostics[1].range.start.line = 1
  /\ BagCardinality(editorMarks) = 1
  /\ Len(diagnosticResults) = 1
  /\ GutterMarkers = {1}

\* C11: in every reachable state no two entries of the diagnostics tracker
\* have the same (start, end) pair.
C11_TrackerRangesDistinct ==
  \A i, j \in 1..Len(diagnosticResults) :
    (/\ diagnosticResults[i].start = diagnosticResults[j].start
     /\ diagnosticResults[i].end = diagnosticResults[j].end) => i = j

\* two diagnostics of one range were published: the tracker holds one entry
\* for the range, with both messages
C11_Witness ==
  /\ Published
  /\ Len(LastDiagnostics) = 2
  /\ LastDiagnostics[1].range = LastDiagnostics[2].range
  /\ Len(markedDiagnostics) = 2
  /\ Len(diagnosticResults) = 1
  /\ Len(diagnosticResults[1].text) = 2

\* the diagnostics state is empty: no diagnostic mark, no tracker entry, no
\* gutter marker
NoDiagnostics ==
  /\ DiagnosticMarks = EmptyBag
  /\ markedDiagnostics = <<>>
  /\ diagnosticResults = <<>>
  /\ GutterMarkers = {}

\* C12: while diagnostics are disabled there is no diagnostic mark, no tracker
\* entry and no gutter marker, so updateOptions with diagnostics disabled has
\* cleared them at once, and a publication handled while they are disabled
\* changes no state of the adapter or the editor.
C12_DisabledMeansCleared ==
  /\ [][(lastOp'.op = "handleDiagnostic" /\ ~options.enableDiagnostics)
         => UNCHANGED <<options, connVars, features, hint, bufVars, token, hoverVars, overlayVars,
                        editorMarks, diagVars, highlightMarkers, listenerVars,
                        timerVars, flightVars>>]_vars
  /\ [](~options.enableDiagnostics => NoDiagnostics)

\* updateOptions disabled diagnostics while two diagnostics were marked
C12_Witness ==
  /\ lastOp.op = "updateOptions"
  /\ lastOp.before = 2
  /\ ~options.enableDiagnostics
  /\ NoDiagnostics

----------------------------------------------------------------------------
(* Claims about the hover track, checked under SpecHover *)

\* the latest step was a pointer move whose target is outside the editor's
\* visible bounding element
MovedOutside == lastOp.op = "handleMouseOver" /\ ~lastOp.event.insideVisible

\* the step issues a hover request
RequestsHover == \E i \in 1..Len(calls') : calls'[i].fn = "getHoverTooltip"

\* C13: a pointer move that lands outside the editor's visible bounding
\* element leaves no hover marker and no mounted overlay at once, and no
\* hover request is issued after it before the pointer moves again (a
\* debounce expiry that follows it requests nothing).
C13_OutsideTearsDownAndStaysQuiet ==
  /\ [](MovedOutside => (hoverMarker = None /\ MountedOverlays(OverlayState) = 0))
  /\ [][(MovedOutside /\ lastOp'.op # "handleMouseOver") => ~RequestsHover]_vars

\* C14: two consecutive getHoverTooltip requests never carry the same
\* position: a request is never issued for the position of the request before it.
C14_NoTwoRequestsInARowForOnePosition ==
  (lastOp.op = "debouncedGetHover" /\ CallsTo("getHoverTooltip") # <<>>)
  => CallsTo("getHoverTooltip")[1].position # lastOp.previous

\* the latest step was one of the three invalidations
Invalidated ==
  lastOp.op \in {"handleScrollLeave", "handleRefresh", "handleMouseLeave"}

\* C15: after the handler of an editor scroll, of an editor refresh or of the
\* pointer leaving the wrapper has run, there is no hover marker and no
\* mounted overlay.
C15_InvalidationsClearHover ==
  Invalidated => (hoverMarker = None /\ MountedOverlays(OverlayState) = 0)

\* C16: a hover response handled right after a scroll, a refresh or a pointer
\* move outside the visible area, so after its request was invalidated, mounts
\* no tooltip and creates no hover marker.
C16_StaleResponseRendersNothing ==
  [][((lastOp.op \in {"handleScrollLeave", "handleRefresh"} \/
       (MovedOutside /\ lastOp.branch = "outside"))
      /\ lastOp'.op = "handleHover")
     => (hoverMarker' = None /\ MountedOverlays(OverlayState)' = 0)]_vars

----------------------------------------------------------------------------
(* Claims about navigation, checked under SpecGoTo *)

\* the latest step was handleGoTo with a list of locations only or of links only
WentToList ==
  /\ lastOp.op = "handleGoTo"
  /\ "locations" \in DOMAIN lastOp.location
  /\ \/ \A i \in 1..Len(lastOp.location.locations) :
          IsLocation(lastOp.location.locations[i])
     \/ \A i \in 1..Len(lastOp.location.locations) :
          IsLocationLink(lastOp.location.locations[i])

\* the URI and the range of an entry of a go-to response
UriOf(l) == IF IsLocation(l) THEN l.uri ELSE l.targetUri
RangeOf(l) == IF IsLocation(l) THEN l.range ELSE l.targetRange

\* the highlight markers of the entries of the document, from entry i on
RECURSIVE HighlightsFrom(_, _)
HighlightsFrom(ls, i) ==
  IF i > Len(ls) THEN <<>>
  ELSE (IF UriOf(ls[i]) = DocumentUri
        THEN <<Mark(HighlightClass, ToPos(RangeOf(ls[i]).start),
                    ToPos(RangeOf(ls[i]).end))>>
        ELSE <<>>) \o HighlightsFrom(ls, i + 1)

\* C17: after handleGoTo with a list of locations (or of links) of which at
\* least one is in the current document, the highlights are exactly the ranges
\* of the entries of the current document, in response order, and the view is
\* scrolled to the start of the first of them.
C17_OnlyCurrentDocumentHighlighted ==
  (WentToList /\ \E i \in 1..Len(lastOp.location.locations) :
                   UriOf(lastOp.location.locations[i]) = DocumentUri)
  => LET ls == lastOp.location.locations
         first == CHOOSE i \in 1..Len(ls) :
                    /\ UriOf(ls[i]) = DocumentUri
                    /\ \A j \in 1..(i - 1) : UriOf(ls[j]) # DocumentUri
     IN  /\ highlightMarkers = HighlightsFrom(ls, 1)
         /\ MarksOfClass(editorMarks, HighlightClass) = BagOfSeq(highlightMarkers)
         /\ lastOp.scrolled
         /\ lastOp.scrollTo = ToPos(RangeOf(ls[first]).start)
         /\ ~lastOp.threw

\* a list whose first entry is of another document and whose second is of the
\* current one: one highlight, the view scrolled to the second entry
C17_Witness ==
  /\ WentToList
  /\ Len(lastOp.location.locations) = 2
  /\ UriOf(lastOp.location.locations[1]) = OtherUri
  /\ UriOf(lastOp.location.locations[2]) = DocumentUri
  /\ Len(highlightMarkers) = 1
  /\ lastOp.scrolled
  /\ lastOp.scrollTo = ToPos(RangeOf(lastOp.location.locations[2]).start)

\* the latest step was handleGoTo with a response that holds no location of
\* the current document: one location of another document, or a list of
\* locations only or of links only, none of the current document
WentNowhere ==
  /\ lastOp.op = "handleGoTo"
  /\ \/ IsLocation(lastOp.location) /\ lastOp.location.uri # DocumentUri
     \/ /\ WentToList
        /\ \A i \in 1..Len(lastOp.location.locations) :
             UriOf(lastOp.location.locations[i]) # DocumentUri

\* C18: handleGoTo with a response that holds no location of the current
\* document completes without throwing, does not scroll the view and leaves
\* no highlight.
C18_NothingSurvivesNothingHappens ==
  WentNowhere => /\ ~lastOp.threw
                 /\ ~lastOp.scrolled
                 /\ highlightMarkers = <<>>

\* the labels of the supported capabilities, in the order definition, type
\* definition, references
SupportedLabels ==
  LET all == <<[cap |-> "definition", label |-> "Go to Definition"],
               [cap |-> "typeDefinition", label |-> "Go to Type Definition"],
               [cap |-> "references", label |-> "Find all References"]>>
      kept == SelectSeq(all, LAMBDA e : e.cap \in capabilities)
  IN  [i \in 1..Len(kept) |-> kept[i].label]

\* the request of an entry
RequestOf(label) ==
  CASE label = "Go to Definition" -> "getDefinition"
    [] label = "Go to Type Definition" -> "getTypeDefinition"
    [] label = "Find all References" -> "getReferences"

\* C19: a right-click on a token inside the editor offers a menu only if the
\* connection supports one of definition, type definition, references; the
\* menu holds exactly the entries of the supported capabilities, in that order,
\* each bound to its request and to the position of the right-click; and an
\* activated entry issues exactly that request with that position.
C19_MenuOffersSupportedOnly ==
  /\ (/\ lastOp.op = "handleRightClick"
      /\ lastOp.event.onCharacter
      /\ lastOp.event.insideVisible)
     => /\ (lastOp.menu # "none") = (capabilities # {})
        /\ lastOp.entries = SupportedLabels
        /\ Len(lastOp.actions) = Len(SupportedLabels)
        /\ \A i \in 1..Len(lastOp.actions) :
             /\ lastOp.actions[i].label = SupportedLabels[i]
             /\ lastOp.actions[i].fn = RequestOf(SupportedLabels[i])
             /\ lastOp.actions[i].position = lastOp.event.position
        /\ lastOp.menu = "built-in" =>
             /\ ShownKind(OverlayState) = "menu"
             /\ tooltip.menu = lastOp.actions
  /\ ShownKind(OverlayState) = "menu" =>
       /\ Len(tooltip.menu) = Len(SupportedLabels)
       /\ \A i \in 1..Len(tooltip.menu) :
            /\ tooltip.menu[i].label = SupportedLabels[i]
            /\ tooltip.menu[i].fn = RequestOf(SupportedLabels[i])
  /\ lastOp.op \in {"menuEntry", "featureAction"} =>
       /\ calls = <<[fn |-> RequestOf(lastOp.action.label),
                     position |-> lastOp.action.position]>>
       /\ lastOp.action.label \in {SupportedLabels[i] : i \in 1..Len(SupportedLabels)}

\* with definition and references supported, the second entry of the menu
\* opened by a right-click at (0, 1) was activated
C19_Witness ==
  /\ lastOp.op = "menuEntry"
  /\ capabilities = {"definition", "references"}
  /\ ShownKind(OverlayState) = "menu"
  /\ Len(tooltip.menu) = 2
  /\ calls = <<[fn |-> "getReferences", position |-> Pos(0, 1)]>>

\* C20: while an overlay is mounted, a document click with a target outside
\* the overlay removes it and one with a target inside it leaves it mounted;
\* an editor focus event clears the highlights and leaves the overlay as it was.
C20_ClickOutsideClosesFocusUnhighlights ==
  /\ (lastOp.op = "handleClickOutside" /\ lastOp.before # "none")
     => IF lastOp.inTooltip
        THEN ShownKind(OverlayState) = lastOp.before
        ELSE MountedOverlays(OverlayState) = 0
  /\ lastOp.op = "handleClickInside"
     => /\ highlightMarkers = <<>>
        /\ MarksOfClass(editorMarks, HighlightClass) = EmptyBag
        /\ ShownKind(OverlayState) = lastOp.before

\* a click outside the mounted menu removed it
C20_Witness ==
  /\ lastOp.op = "handleClickOutside"
  /\ ~lastOp.inTooltip
  /\ lastOp.before = "menu"
  /\ ~isShowingContextMenu
  /\ MountedOverlays(OverlayState) = 0

----------------------------------------------------------------------------
(* Claims about token extraction, checked under SpecToken *)

\* the first index of the maximal run of word characters of a line that ends
\* before index ch (ch itself when the character before it is no word character)
RunStart(line, ch) ==
  CHOOSE s \in 0..ch :
    /\ \A i \in s..(ch - 1) : line[i + 1] \in WordCharacters
    /\ s > 0 => line[s] \notin WordCharacters

\* C21: for a cursor at ch >= 1, _getTokenEndingAtPosition returns the single
\* split character before the cursor, spanning [ch-1, ch], or else the maximal
\* run of word characters that ends at the cursor: start at the run's first
\* character, end at the cursor and text the characters of the line from start
\* to end, so none at or after the cursor. (Stated for a split character or a
\* word character before the cursor, where the run is not empty.)
C21_TokenEndsAtCursor ==
  (/\ lastOp.op = "getTokenEndingAtPosition"
   /\ doc[cursor.line + 1][cursor.ch] \in lastOp.splitCharacters \cup WordCharacters)
  =>
    LET line == doc[cursor.line + 1]
        typedCharacter == line[cursor.ch]
        s == RunStart(line, cursor.ch)
    IN  IF typedCharacter \in lastOp.splitCharacters
        THEN token = [text |-> <<typedCharacter>>,
                      start |-> Pos(cursor.line, cursor.ch - 1), end |-> cursor]
        ELSE token = [text |-> SubSeq(line, s + 1, cursor.ch),
                      start |-> Pos(cursor.line, s), end |-> cursor]

----------------------------------------------------------------------------
(* Claims about the filter, checked under SpecFilter *)

\* the latest step was handleCompletion filtering a response for the token
Filtered == lastOp.op = "handleCompletion" /\ ~lastOp.returned

\* the lowercased first word of the pending token
PendingWord == ToLowerCase(FirstWord(token.text))

\* the label of an item case-insensitively equals the word
LabelIsWord(item) == ToLowerCase(item.label) = PendingWord

\* the label of an item starts with the word
LabelStarts(item) == StartsWith(ToLowerCase(item.label), PendingWord)

\* C22: among the server completions (whole-word matching disabled) no item
\* is returned whose label case-insensitively equals the first word of the
\* prefix, whatever its other fields; among the snippets (whole-word matching
\* enabled) every such item is returned.
C22_ExactLabelExcluded ==
  Filtered =>
    /\ \A i \in 1..Len(lastOp.bestCompletions) : ~LabelIsWord(lastOp.bestCompletions[i])
    /\ snippets # None =>
         \A i \in 1..Len(snippets.items) :
           LabelIsWord(snippets.items[i]) =>
             \E j \in 1..Len(lastOp.bestSnippets) :
               lastOp.bestSnippets[j] = snippets.items[i]

\* a is a subsequence of b
RECURSIVE IsSubsequence(_, _)
IsSubsequence(a, b) ==
  IF Len(a) = 0 THEN TRUE
  ELSE IF Len(b) = 0 THEN FALSE
  ELSE IF Head(a) = Head(b) THEN IsSubsequence(Tail(a), Tail(b))
  ELSE IsSubsequence(a, Tail(b))

\* the returned items form a partition of candidates that match: each is a
\* candidate whose filter text or label starts with the word, those whose label
\* starts with it come first, and each group is in candidate order
PartitionOf(returned, candidates) ==
  /\ \A i \in 1..Len(returned) :
       \/ StartsWith(ToLowerCase(returned[i].filterText), PendingWord)
       \/ LabelStarts(returned[i])
  /\ \A i, j \in 1..Len(returned) :
       (i < j /\ LabelStarts(returned[j])) => LabelStarts(returned[i])
  /\ IsSubsequence(SelectSeq(returned, LabelStarts), candidates)
  /\ IsSubsequence(SelectSeq(returned, LAMBDA item : ~LabelStarts(item)), candidates)

\* C26: _getFilteredCompletions returns only candidates whose filter text or
\* label starts with the lowercased first word of the prefix; the returned
\* items whose label starts with the word precede those whose label does not,
\* and within each group the candidate order is kept.
C26_FilteredAndPartitioned ==
  Filtered =>
    /\ PartitionOf(lastOp.bestCompletions, lastOp.completions.items)
    /\ snippets # None => PartitionOf(lastOp.bestSnippets, snippets.items)

\* a candidate kept for its filter text was moved behind a later candidate
\* whose label starts with the word
C26_Witness ==
  /\ Filtered
  /\ Len(lastOp.completions.items) = 2
  /\ ~LabelStarts(lastOp.completions.items[1])
  /\ LabelStarts(lastOp.completions.items[2])
  /\ lastOp.bestCompletions = <<lastOp.completions.items[2], lastOp.completions.items[1]>>

----------------------------------------------------------------------------
(* Claims about the completion track, checked under SpecCompletion *)

\* the items of a list, none for an absent list
AllOf(list) == IF list = None THEN <<>> ELSE list.items

\* the pending token is a single completion-trigger character
TriggerPending ==
  token # None /\ Len(token.text) = 1 /\ token.text[1] \in completionCharacters

\* C23: when a completion response arrives while suggest is enabled
\* and the pending token is a single completion-trigger character, the hint
\* list is the matching snippets followed by every server candidate in server
\* order and the replacement range is empty at the token's end; with suggest
\* disabled or no pending token no hint list is shown.
C23_TriggerShowsEveryCandidate ==
  lastOp.op = "handleCompletion" =>
    /\ (options.suggest /\ TriggerPending) =>
         /\ hint # None
         /\ hint.data.list = GetHintList(lastOp.bestSnippets) \o
                              GetHintList(AllOf(lastOp.completions))
         /\ hint.data.from = token.end
         /\ hint.data.to = token.end
    /\ (~options.suggest \/ token = None) => ~HintShown

\* C24: once a completion response has been rendered, or a handled buffer
\* change has issued no request (no preceding character, or punctuation outside
\* every trigger set), the pending token is gone: a completion response that
\* comes next renders nothing.
C24_SpentTokenRendersNothing ==
  [][(/\ lastOp'.op = "handleCompletion"
      /\ \/ lastOp.op = "handleCompletion" /\ ~lastOp.returned
         \/ lastOp.op = "handleChange" /\ lastOp.branch \in {"cleared", "other"})
     => UNCHANGED hint]_vars

\* where the replacement range of a token starts
TokenFrom(tok) == IF IsSingleNonWord(tok.text) THEN tok.end ELSE tok.start

\* C30: every hint result produced, at the response or when the open hint list
\* is evaluated again after a buffer change, has its range from the pending
\* token of that moment: from is its start (its end, for a single non-word
\* token), to is its end, and from <= to on one line.
C30_RangeFromOneToken ==
  [][(hint' # None /\ hint' # hint) =>
       /\ hint'.data.from = TokenFrom(token')
       /\ hint'.data.to = token'.end
       /\ hint'.data.from.line = hint'.data.to.line
       /\ hint'.data.from.ch <= hint'.data.to.ch]_vars

----------------------------------------------------------------------------
(* Claims about malformed responses, checked under SpecMalformed *)

\* the latest step was a handler that threw
Threw == "threw" \in DOMAIN lastOp /\ lastOp.threw

\* the latest step was a publication that is null, lacks its list or is empty
EmptyPublication ==
  /\ lastOp.op = "handleDiagnostic"
  /\ "diagnostics" \in DOMAIN lastOp.response => Len(lastOp.response.diagnostics) = 0

\* C25: given a response that is null, lacks its expected field or is empty,
\* no response handler throws, and handleHover, handleSignature and
\* handleCompletion leave no overlay and no hint list mounted.
C25_EmptyResponsesAreHarmless ==
  /\ lastOp.op = "handleHover" => tooltip = None
  /\ lastOp.op = "handleSignature" => ~Threw /\ tooltip = None
  /\ lastOp.op = "handleCompletion" => ~HintShown
  /\ EmptyPublication => ~Threw

----------------------------------------------------------------------------
(* Claims about highlights and dispatch, checked under SpecHighlight and
   SpecDispatch *)

\* the response of the latest handleGoTo has one of the three shapes: a single
\* location, a list of locations, a list of location links
ShapedLocation(l) ==
  \/ IsLocation(l)
  \/ /\ ~IsLocation(l)
     /\ \/ \A i \in 1..Len(l.locations) : IsLocation(l.locations[i])
        \/ \A i \in 1..Len(l.locations) : IsLocationLink(l.locations[i])

\* the ranges a go-to response names
RangesOfLocation(l) ==
  IF IsLocation(l) THEN {l.range}
  ELSE {IF IsLocation(l.locations[i]) THEN l.locations[i].range
        ELSE l.locations[i].targetRange : i \in 1..Len(l.locations)}

\* the ranges the latest highlight request names
RequestedRanges ==
  IF lastOp.op = "handleGoTo" THEN RangesOfLocation(lastOp.location)
  ELSE {HighlightItems(lastOp.items)[i].range : i \in 1..Len(HighlightItems(lastOp.items))}

\* the latest step was a highlight request
HighlightRequested ==
  \/ lastOp.op = "handleHighlight"
  \/ /\ lastOp.op = "handleGoTo"
     /\ lastOp.location # None
     /\ ShapedLocation(lastOp.location)

\* C27: after handleGoTo with a non-null response of any of the three shapes,
\* or after handleHighlight, every highlight marker is on a range of that
\* response: the markers of earlier responses have been cleared.
C27_HighlightsReplacedWholesale ==
  HighlightRequested =>
    \A i \in 1..Len(highlightMarkers) :
      \E r \in RequestedRanges :
        highlightMarkers[i] = Mark(HighlightClass, ToPos(r.start), ToPos(r.end))

\* C28: a goTo event the connection emits in response to a request of the
\* context menu runs handleGoTo.
C28_GoToEventRunsHandler ==
  (lastOp.op = "emit" /\ lastOp.event = "goTo") => lastOp.handled

----------------------------------------------------------------------------
(* Claims about positioning, checked under SpecTooltip *)

\* where the overlay belongs after its tick, for its own y and measured height
PlacedTop(el) ==
  IF el.y - el.measured >= 0 THEN el.y - el.measured ELSE el.y + DefaultTextHeight

\* C29: an overlay shown at y has top y - h until its reposition tick, h the
\* line height; after its tick its top is y - H when y - H >= 0 and y + h
\* otherwise, H its own measured height, whatever shows and removals happen
\* before the tick.
C29_OverlayPlacedByItsOwnCall ==
  \A k \in 1..Len(overlays) :
    overlays[k].top = IF overlays[k].ticked THEN PlacedTop(overlays[k])
                      ELSE overlays[k].y - DefaultTextHeight

----------------------------------------------------------------------------
(* The token of the completion requests, checked under SpecChange *)

\* C31: every getCompletion request of a handled change carries the token that
\* ends at the position of the same request: the token is defined and its end
\* is the request position, for trigger-character and for Invoked requests.
C31_RequestTokenEndsAtPosition ==
  Handled =>
    \A i \in 1..Len(CallsTo("getCompletion")) :
      /\ CallsTo("getCompletion")[i].token # None
      /\ CallsTo("getCompletion")[i].token.end = CallsTo("getCompletion")[i].position

====
